---- MODULE Spec2Model ----
\* PianoRain: the offline MIDI exporter (lib/midi-export.js) and the part of
\* the content script that consumes its result (handleExportMidi).
\*
\* Times are integers, in units of 1/UnitsPerSecond of a second.  A pitch
\* candidate is an integer, -1 meaning "absent".
EXTENDS Integers, Sequences, FiniteSets, TLC

\* ---------------------------------------------------------------- bounds
\* Resolution of the modelled clock (units per second).
UnitsPerSecond == 1000
\* The media resource's duration, in time units.
Duration == 2
\* Sampling ticks modelled per export (the timer itself never stops firing).
MaxTicks == 3
\* Observations fed to the segmentation in SegSpec.
MaxObs == 5
\* Largest step of the clock between two observations in SegSpec.
MaxStep == 2
\* Longest input of buildMidiFile in SerSpec.
MaxNotes == 2
\* Width of the windows of arguments given to writeVLQ in VlqSpec.
VlqSpan == 8
\* Bins of a frame given to the detectors in DetSpec.
BinCount == 5
\* Width of the windows of frequencies given to freqToMidi in FreqSpec.
FreqSpan == 2
\* Finalizations of one segmentation in SegSpec.
MaxFinalizations == 3
\* exportMidi requests of one page in RequestSpec.
MaxExports == 2
\* createMediaElementSource calls for one video element in CaptureSpec.
MaxCreates == 3
\* Sets of listeners attached to the page at once.
MaxAttached == 3
\* Blocks spawned by updateNotes in NotesSpec.
MaxSpawned == 3
\* Video elements a page hands to the audio capture.
NumVideos == 3
\* Timestamp after which no further render frame is taken, in units of FrameUnit.
MaxClock == 4
\* Longest time between two render frames, in units of FrameUnit.
MaxFrameGap == 3
\* canvas.height of the overlay, in pixels.
CanvasHeight == 30

\* ------------------------------------------------------ program constants
EXPORT_PLAYBACK_RATE == 16
TICKS_PER_QUARTER == 480
BPM == 120
TICKS_PER_SECOND == (TICKS_PER_QUARTER * BPM) \div 60
MAX_DELTA == 268435455
EMPTY_MIDI_SIZE == 64
NOTE_ON == 144
NOTE_OFF == 128
NOTE_ON_VELOCITY == 80

Absent == -1

Max(a, b) == IF a >= b THEN a ELSE b
Min(a, b) == IF a <= b THEN a ELSE b

\* x & 0x7F and x & 0xFF on an integer (two's complement: the mathematical
\* residue), x >> n on a non-negative integer, and x >>> 7 on a 32-bit
\* integer: a negative x is read as x + 2^32, and 2^32 / 128 = 2^25.
And7F(x) == x % 128
AndFF(x) == x % 256
Shr(x, n) == x \div (2 ^ n)
Ushr7(x) == IF x >= 0 THEN x \div 128 ELSE 33554432 + (x \div 128)

\* Math.round(num / den) for den > 0: the nearest integer, halves upwards.
MathRound(num, den) == (2 * num + den) \div (2 * den)

\* ------------------------------------------------------------- writeVLQ
RECURSIVE VLQContinuation(_)
VLQContinuation(value) ==
    IF value > 0
    THEN VLQContinuation(Ushr7(value)) \o << And7F(value) + 128 >>
    ELSE << >>

\* Mutant: the continuation bytes are pushed after the low byte (push for unshift).
writeVLQ_Push(value) ==
    << And7F(value) >> \o VLQContinuation(Ushr7(value))

writeVLQ(value) ==
    VLQContinuation(Ushr7(value)) \o << And7F(value) >>

\* --------------------------------------------------------- buildMidiFile
\* Mutant: the duration test is < instead of <=, so an event of zero duration
\* is expanded too.
ExpandNote_KeepsEmpty(note) ==
    IF note.endTime < note.startTime
    THEN << >>
    ELSE << [time |-> note.startTime, type |-> NOTE_ON,
             note |-> And7F(note.midi), velocity |-> NOTE_ON_VELOCITY],
            [time |-> note.endTime, type |-> NOTE_OFF,
             note |-> And7F(note.midi), velocity |-> 0] >>

\* Mutant: the note-off is pushed with the note-on's velocity.
ExpandNote_OffVelocity(note) ==
    IF note.endTime <= note.startTime
    THEN << >>
    ELSE << [time |-> note.startTime, type |-> NOTE_ON,
             note |-> And7F(note.midi), velocity |-> NOTE_ON_VELOCITY],
            [time |-> note.endTime, type |-> NOTE_OFF,
             note |-> And7F(note.midi), velocity |-> NOTE_ON_VELOCITY] >>

\* The first loop: events of no positive duration are skipped, the others
\* become a note-on and a note-off.
ExpandNote(note) ==
    IF note.endTime <= note.startTime
    THEN << >>
    ELSE << [time |-> note.startTime, type |-> NOTE_ON,
             note |-> And7F(note.midi), velocity |-> NOTE_ON_VELOCITY],
            [time |-> note.endTime, type |-> NOTE_OFF,
             note |-> And7F(note.midi), velocity |-> 0] >>

RECURSIVE ExpandNotes(_)
ExpandNotes(ns) ==
    IF ns = << >> THEN << >> ELSE ExpandNote(Head(ns)) \o ExpandNotes(Tail(ns))

\* The comparator of midiEvents.sort.
\* Mutant: at equal times the comparator puts the note-start first.
CompareEvents_StartFirst(a, b) ==
    IF a.time # b.time THEN a.time - b.time ELSE b.type - a.type

CompareEvents(a, b) ==
    IF a.time # b.time THEN a.time - b.time ELSE a.type - b.type

Front(s) == SubSeq(s, 1, Len(s) - 1)
Last(s) == s[Len(s)]

\* Array.prototype.sort is stable: x goes after every element not above it.
RECURSIVE InsertEvent(_, _)
InsertEvent(s, x) ==
    IF s = << >> \/ CompareEvents(Last(s), x) <= 0
    THEN Append(s, x)
    ELSE Append(InsertEvent(Front(s), x), Last(s))

RECURSIVE SortEvents(_)
SortEvents(s) ==
    IF s = << >> THEN << >> ELSE InsertEvent(SortEvents(Front(s)), Last(s))

midiEvents(ns) == SortEvents(ExpandNotes(ns))

\* Math.max(0, Math.round(ev.time * TICKS_PER_SECOND)), the whole seconds
\* converted apart from the fraction so that no product leaves 32 bits.
EventTick(ev) ==
    Max(0, (ev.time \div UnitsPerSecond) * TICKS_PER_SECOND
             + MathRound((ev.time % UnitsPerSecond) * TICKS_PER_SECOND, UnitsPerSecond))

\* Mutant: prevTick is never advanced.
RECURSIVE EmitEvents_StalePrev(_, _)
EmitEvents_StalePrev(evs, prevTick) ==
    IF evs = << >>
    THEN << >>
    ELSE LET ev == Head(evs)
             tick == EventTick(ev)
             delta == Min(MAX_DELTA, Max(0, tick - prevTick))
         IN  writeVLQ(delta) \o << ev.type, And7F(ev.note), And7F(ev.velocity) >>
                \o EmitEvents_StalePrev(Tail(evs), prevTick)

\* The second loop: delta, status, pitch, velocity of every sub-event.
RECURSIVE EmitEvents(_, _)
EmitEvents(evs, prevTick) ==
    IF evs = << >>
    THEN << >>
    ELSE LET ev == Head(evs)
             tick == EventTick(ev)
             delta == Min(MAX_DELTA, Max(0, tick - prevTick))
         IN  writeVLQ(delta) \o << ev.type, And7F(ev.note), And7F(ev.velocity) >>
                \o EmitEvents(Tail(evs), tick)

\* 'PianoRain Export'
nameBytes == << 80, 105, 97, 110, 111, 82, 97, 105, 110, 32, 69, 120, 112, 111, 114, 116 >>

\* Mutant: the tempo written is that of 60 beats per minute.
usPerBeat_SixtyBpm == MathRound(60000000, 60)

usPerBeat == MathRound(60000000, BPM)

TrackPrologue ==
    writeVLQ(0) \o << 255, 3 >> \o writeVLQ(Len(nameBytes)) \o nameBytes
      \o writeVLQ(0) \o << 255, 88, 4, 4, 2, 24, 8 >>
      \o writeVLQ(0) \o << 255, 81, 3,
                           AndFF(Shr(usPerBeat, 16)), AndFF(Shr(usPerBeat, 8)), AndFF(usPerBeat) >>
      \o writeVLQ(0) \o << 192, 0 >>

EndOfTrack == writeVLQ(0) \o << 255, 47, 0 >>

trackBytes(ns) == TrackPrologue \o EmitEvents(midiEvents(ns), 0) \o EndOfTrack

header ==
    << 77, 84, 104, 100, 0, 0, 0, 6, 0, 0, 0, 1,
       AndFF(Shr(TICKS_PER_QUARTER, 8)), AndFF(TICKS_PER_QUARTER) >>

\* Mutant: the length field counts the chunk's own 8-byte header too.
track_LengthWithHeader(ns) ==
    LET trackLen == Len(trackBytes(ns)) + 8
    IN  << 77, 84, 114, 107,
           AndFF(Shr(trackLen, 24)), AndFF(Shr(trackLen, 16)),
           AndFF(Shr(trackLen, 8)), AndFF(trackLen) >> \o trackBytes(ns)

track(ns) ==
    LET trackLen == Len(trackBytes(ns))
    IN  << 77, 84, 114, 107,
           AndFF(Shr(trackLen, 24)), AndFF(Shr(trackLen, 16)),
           AndFF(Shr(trackLen, 8)), AndFF(trackLen) >> \o trackBytes(ns)

buildMidiFile(ns) == header \o track(ns)

\* ------------------------------------------------------ note-detector.js
\* Frequencies are integers in thousandths of a hertz.  Magnitudes are whole
\* decibels or -Infinity, which an analyser reports for an empty bin.  A pitch
\* is a number or NaN.
MIDI_MIN == 21
MIDI_MAX == 108
AMPLITUDE_THRESHOLD_DB == -50
NegInf == -1000000
NaN == -1000001

\* a < b and a > b on numbers: false as soon as one of them is NaN.
Less(a, b) == a # NaN /\ b # NaN /\ a < b
Greater(a, b) == Less(b, a)

\* Math.ceil(a / b) and Math.round(a / b) for a >= 0 and b > 0.
CeilDiv(a, b) == (a + b - 1) \div b
RoundDiv(a, b) == (2 * a + b) \div (2 * b)

\* 440 * 2^((p - 69.5) / 12), the least frequency whose pitch rounds to p, for
\* p = 128 .. 139, rounded up to the unit; and the centers 440 * 2^((p - 69) / 12)
\* of the same pitches.  An octave down halves both.
BoundaryTop == << 12911417, 13679170, 14492576, 15354349, 16267366, 17234674,
                 18259501, 19345268, 20495597, 21714329, 23005530, 24373510 >>
CenterTop == << 13289750, 14080000, 14917240, 15804266, 16744036, 17739688,
               18794545, 19912127, 21096164, 22350607, 23679643, 25087708 >>
TopPitch == 139
OctavesBelowTop(p) == (TopPitch - p) \div 12
TopIndex(p) == ((p - (TopPitch - 11)) % 12) + 1

SemitoneFloor(p) == CeilDiv(BoundaryTop[TopIndex(p)], 2 ^ OctavesBelowTop(p))

\* Math.round(12 * Math.log2(freq / 440) + 69) for 0 < freq below the floor of
\* pitch TopPitch + 1: the highest pitch whose floor freq has reached.
RECURSIVE RoundedPitch(_, _)
RoundedPitch(freq, p) ==
    IF SemitoneFloor(p) <= freq THEN p ELSE RoundedPitch(freq, p - 1)

midiToFreq(midi) == RoundDiv(CenterTop[TopIndex(midi)], 2 ^ OctavesBelowTop(midi))

\* Mutant: Math.floor for Math.round, a pitch's span starting at its center.
freqToMidi_Floor(freq) ==
    IF freq = NaN THEN NaN
    ELSE IF freq <= 0 THEN -1
    ELSE IF midiToFreq(RoundedPitch(freq, TopPitch)) <= freq
         THEN RoundedPitch(freq, TopPitch)
         ELSE RoundedPitch(freq, TopPitch) - 1

freqToMidi(freq) ==
    IF freq = NaN THEN NaN
    ELSE IF freq <= 0 THEN -1
    ELSE RoundedPitch(freq, TopPitch)

\* freqData[i], the array counted from 0.
Bin(freqData, i) == freqData[i + 1]

\* binHz, binStart and binEnd of detectNote.
BinHz(binCount, sampleRate) == (sampleRate * 1000) \div (binCount * 2)
BinStart(binCount, sampleRate) ==
    Max(0, midiToFreq(MIDI_MIN) \div BinHz(binCount, sampleRate))
BinEnd(binCount, sampleRate) ==
    Min(binCount - 1, CeilDiv(midiToFreq(MIDI_MAX), BinHz(binCount, sampleRate)))

\* Mutant: a bin at the running peak's amplitude replaces it (>= for >).
RECURSIVE PeakScan_AtThreshold(_, _, _, _)
PeakScan_AtThreshold(freqData, i, binEnd, peak) ==
    IF i > binEnd
    THEN peak
    ELSE PeakScan_AtThreshold(freqData, i + 1, binEnd,
                  IF Bin(freqData, i) >= peak.amplitude
                  THEN [amplitude |-> Bin(freqData, i), bin |-> i]
                  ELSE peak)

\* The loop of lines 68-73 from bin i on; peak is peakAmplitude and peakBin.
RECURSIVE PeakScan(_, _, _, _)
PeakScan(freqData, i, binEnd, peak) ==
    IF i > binEnd
    THEN peak
    ELSE PeakScan(freqData, i + 1, binEnd,
                  IF Bin(freqData, i) > peak.amplitude
                  THEN [amplitude |-> Bin(freqData, i), bin |-> i]
                  ELSE peak)

\* (num / den) * binHz for den # 0, rounded down.
ScaleBins(num, den, binHz) ==
    IF den > 0 THEN (num * binHz) \div den ELSE ((0 - num) * binHz) \div (0 - den)

\* Lines 78-88.  The peak bin is above the threshold, hence finite.  With a
\* neighbour at -Infinity denom is -Infinity and the offset is
\* (-Infinity) / (-Infinity), Infinity / (-Infinity) or NaN / (-Infinity): NaN.
PeakFreq(freqData, peakBin, binHz) ==
    IF peakBin > 0 /\ peakBin < Len(freqData) - 1
    THEN LET alpha == Bin(freqData, peakBin - 1)
             beta == Bin(freqData, peakBin)
             gamma == Bin(freqData, peakBin + 1)
             denom == alpha - 2 * beta + gamma
         IN  IF alpha = NegInf \/ gamma = NegInf
             THEN NaN
             ELSE IF denom # 0
                  THEN ScaleBins(2 * denom * peakBin + (alpha - gamma), 2 * denom, binHz)
                  ELSE peakBin * binHz
    ELSE peakBin * binHz

detectNote(freqData, sampleRate) ==
    LET binCount == Len(freqData)
        binHz == BinHz(binCount, sampleRate)
        peak == PeakScan(freqData, BinStart(binCount, sampleRate), BinEnd(binCount, sampleRate),
                         [amplitude |-> AMPLITUDE_THRESHOLD_DB, bin |-> -1])
        midi == freqToMidi(PeakFreq(freqData, peak.bin, binHz))
    IN  IF peak.bin < 0 THEN -1
        ELSE IF Less(midi, MIDI_MIN) \/ Greater(midi, MIDI_MAX) THEN -1
        ELSE midi

\* How a call ends: with a value, or with an exception.
Returned(v) == [completion |-> "return", value |-> v]
Thrown == [completion |-> "throw", value |-> -1]

\* Mutant: an estimate that is not confident falls back to the peak-picker.
detectNoteEnhanced_FallsBack(freqData, essentia, sampleRate) ==
    IF essentia.kind = "result" /\ essentia.pitchConfidence > 50 /\ essentia.pitch > 0
    THEN LET midi == freqToMidi(essentia.pitch)
         IN  Returned(IF midi >= MIDI_MIN /\ midi <= MIDI_MAX THEN midi ELSE -1)
    ELSE Returned(detectNote(freqData, sampleRate))

\* Mutant: the estimator's exception is not caught.
detectNoteEnhanced_NoCatch(freqData, essentia, sampleRate) ==
    IF essentia.kind = "result"
    THEN LET midi == freqToMidi(essentia.pitch)
         IN  Returned(IF essentia.pitchConfidence > 50 /\ essentia.pitch > 0
                         /\ midi >= MIDI_MIN /\ midi <= MIDI_MAX
                      THEN midi ELSE -1)
    ELSE IF essentia.kind = "throws" THEN Thrown
    ELSE Returned(detectNote(freqData, sampleRate))

\* detectNoteEnhanced(freqData, timeData, sampleRate).  essentia is
\* essentiaInstance and what PitchYinFFT makes of timeData: absent (null), an
\* exception, or a result with its pitch and its confidence in hundredths.
detectNoteEnhanced(freqData, essentia, sampleRate) ==
    IF essentia.kind = "result"
    THEN LET freq == essentia.pitch
             confidence == essentia.pitchConfidence
             midi == freqToMidi(freq)
         IN  Returned(IF confidence > 50 /\ freq > 0 /\ midi >= MIDI_MIN /\ midi <= MIDI_MAX
                      THEN midi ELSE -1)
    ELSE Returned(detectNote(freqData, sampleRate))

\* ------------------------------------------------- exporter: the state
VARIABLES
    video,          \* the HTMLVideoElement: currentTime, playbackRate, muted, paused, seeking, duration
    orig,           \* origTime, origRate, origMuted, origPaused
    notes,          \* the closure's notes array
    currentNote,    \* the sustained pitch, or -1
    noteStartTime,  \* start of the sustained pitch
    intervalId,     \* the sampling timer, or Null
    cancelled,      \* the closure's cancellation flag
    promise,        \* the promise exportVideoToMidi returned: state and value
    seekedListener, \* the once-listener for 'seeked' is registered
    errorListener,  \* the once-listener for 'error' is registered
    response,       \* what handleExportMidi answered
    downloaded,     \* the bytes handed to downloadMidiFile, or << >>
    tickCount,      \* history: sampling ticks run so far
    lastTickTime,   \* history: the source time the latest sampling tick read
    timeWentBack,   \* history: some tick read an earlier time than the tick before it
    cancelRequested,\* history: the caller has asked for the export to be cancelled
    errorReported,  \* history: the source reported an error while the export was pending
    obs,            \* history (SegSpec): the observations fed to the segmentation
    finalTime,      \* history (SegSpec): the time of finalization, or -1
    finalizations,  \* history (SegSpec): finalizations run so far
    serOut,         \* SerSpec: the bytes buildMidiFile returned, or << >>
    progressCalls,  \* history: how often the progress sink was invoked
    lastProgress,   \* history: the latest value given to the sink, << num, den >>
    arg,            \* specifications of one function: the argument drawn
    ret,            \* specifications of one function: the value returned, or << >>
    isActive,       \* content script: PianoRain is active on the page
    animFrameId,    \* content script: the scheduled render frame, or Null
    cleanupVideoSync, \* content script: the video-sync listeners are attached
    playbackRate,   \* content script: its copy of the video's playback rate
    lastFrameTime,  \* content script: timestamp of the previous running frame, or Null
    analyser,       \* content script: video, audioCtx and analyser are set
    ratechangeQueued, \* page: a 'ratechange' event of the video waits to be dispatched
    storedActive,   \* chrome.storage.local: the stored 'active' preference
    fallingNotes,   \* falling-notes.js: the list of note blocks
    sustainedNote,  \* falling-notes.js: the block being sustained, or << >>
    spawned,        \* history: blocks created so far (the identity of a block)
    frameClock,     \* history: timestamp of the latest render frame
    detected,       \* history: the latest render frame ran detectNoteEnhanced
    capture,        \* audio-capture.js: audioCtx, analyser, sourceNode, capturedVideo, and the
                    \* connections source -> analyser and analyser -> destination
    created,        \* history: createMediaElementSource calls for each video element
    exports,        \* page: the exportVideoToMidi calls made, each with its orig and state
    requests,       \* page: exportMidi messages sent and not yet handled
    popup,          \* popup: open or closed, and whether its export button is disabled
    lastStatus,     \* content script: the status of its latest sendStatus call
    resuming,       \* content script: activate() calls waiting for audioCtx.resume()
    loops,          \* page: render callbacks requested and neither run nor cancelled
    attached        \* page: sets of resize and video-sync listeners attached

vars == << video, orig, notes, currentNote, noteStartTime, intervalId, cancelled,
           promise, seekedListener, errorListener, response, downloaded,
           tickCount, lastTickTime, timeWentBack, cancelRequested, errorReported,
           obs, finalTime, finalizations, serOut, progressCalls, lastProgress, arg, ret,
           isActive, animFrameId, cleanupVideoSync, playbackRate, lastFrameTime,
           analyser, ratechangeQueued, storedActive, fallingNotes, sustainedNote,
           spawned, frameClock, detected, capture, created, exports, requests, popup, lastStatus,
           resuming, loops, attached >>

\* The video and everything of one export.
exporterVars == << video, orig, notes, currentNote, noteStartTime, intervalId, cancelled,
                   promise, seekedListener, errorListener, response, downloaded,
                   tickCount, lastTickTime, timeWentBack, cancelRequested, errorReported,
                   obs, finalTime, finalizations, serOut, progressCalls, lastProgress >>

\* The content script, the falling notes, the audio capture and the popup.
contentVars == << isActive, animFrameId, cleanupVideoSync, playbackRate, lastFrameTime,
                  analyser, ratechangeQueued, storedActive, fallingNotes, sustainedNote,
                  spawned, frameClock, detected >>
\* What tells one activation from two that overlap.
toggleVars == << resuming, loops, attached >>
pageVars == << contentVars, capture, created, exports, requests, popup, lastStatus, toggleVars >>

Null == 0
TimerId == 1

\* What detectNoteEnhanced can hand to a tick: absent or a pitch.
Candidates == { Absent, 60, 62 }
\* Playback rates the page may have set before the export.
PageRates == { 1, 2 }

\* video.ended: the playback position is at the end of the resource.
Ended(v) == v.currentTime >= v.duration /\ ~v.seeking

\* ------------------------------------------ exporter: the segmentation
Seg == [notes |-> notes, currentNote |-> currentNote, noteStartTime |-> noteStartTime]

\* Mutant: the start time of a new note is not recorded.
Observe_StaleStart(seg, midi, currentTime) ==
    IF midi # seg.currentNote
    THEN [notes |-> IF seg.currentNote # Absent
                    THEN Append(seg.notes, [midi |-> seg.currentNote,
                                            startTime |-> seg.noteStartTime,
                                            endTime |-> currentTime])
                    ELSE seg.notes,
          currentNote |-> midi,
          noteStartTime |-> seg.noteStartTime]
    ELSE seg

\* Mutant: a closed note is put at the front of the array (unshift for push).
Observe_Unshift(seg, midi, currentTime) ==
    IF midi # seg.currentNote
    THEN [notes |-> IF seg.currentNote # Absent
                    THEN << [midi |-> seg.currentNote,
                             startTime |-> seg.noteStartTime,
                             endTime |-> currentTime] >> \o seg.notes
                    ELSE seg.notes,
          currentNote |-> midi,
          noteStartTime |-> IF midi # Absent THEN currentTime ELSE seg.noteStartTime]
    ELSE seg

\* Mutant: the sustained note is ended and started again at every tick.
Observe_Restarts(seg, midi, currentTime) ==
    [notes |-> IF seg.currentNote # Absent
               THEN Append(seg.notes, [midi |-> seg.currentNote,
                                       startTime |-> seg.noteStartTime,
                                       endTime |-> currentTime])
               ELSE seg.notes,
     currentNote |-> midi,
     noteStartTime |-> IF midi # Absent THEN currentTime ELSE seg.noteStartTime]

\* tick, lines 215-225: a differing candidate ends the sustained note and
\* starts the new one.
Observe(seg, midi, currentTime) ==
    IF midi # seg.currentNote
    THEN [notes |-> IF seg.currentNote # Absent
                    THEN Append(seg.notes, [midi |-> seg.currentNote,
                                            startTime |-> seg.noteStartTime,
                                            endTime |-> currentTime])
                    ELSE seg.notes,
          currentNote |-> midi,
          noteStartTime |-> IF midi # Absent THEN currentTime ELSE seg.noteStartTime]
    ELSE seg

\* Mutant: finish closes the open note and goes on sustaining it.
CloseOpenNote_KeepsOpen(seg, currentTime) ==
    IF seg.currentNote # Absent
    THEN [notes |-> Append(seg.notes, [midi |-> seg.currentNote,
                                       startTime |-> seg.noteStartTime,
                                       endTime |-> currentTime]),
          currentNote |-> seg.currentNote,
          noteStartTime |-> seg.noteStartTime]
    ELSE seg

\* Mutant: finish forgets the open note instead of closing it.
CloseOpenNote_Drops(seg, currentTime) ==
    [notes |-> seg.notes, currentNote |-> Absent, noteStartTime |-> seg.noteStartTime]

\* finish, lines 173-177: close any open note.
CloseOpenNote(seg, currentTime) ==
    IF seg.currentNote # Absent
    THEN [notes |-> Append(seg.notes, [midi |-> seg.currentNote,
                                       startTime |-> seg.noteStartTime,
                                       endTime |-> currentTime]),
          currentNote |-> Absent,
          noteStartTime |-> seg.noteStartTime]
    ELSE seg

SetSeg(seg) ==
    /\ notes' = seg.notes
    /\ currentNote' = seg.currentNote
    /\ noteStartTime' = seg.noteStartTime

\* ------------------------------------ exporter: restore, finish, abort
\* restore(): pause() is called only if the source was paused; assigning
\* currentTime starts a seek.
restoreTo(v, o) ==
    [v EXCEPT !.muted = o.muted,
              !.playbackRate = o.rate,
              !.paused = IF o.paused THEN TRUE ELSE @,
              !.currentTime = o.time,
              !.seeking = TRUE]

restore(v) == restoreTo(v, orig)

\* Mutant: the size test is < instead of <=.
HandleResolved_StrictLess(midiData) ==
    IF Len(midiData) < EMPTY_MIDI_SIZE
    THEN response' = "NoNotes" /\ downloaded' = << >>
    ELSE response' = "Ok" /\ downloaded' = midiData

\* handleExportMidi after its await: the size test, the download, the answer.
HandleResolved(midiData) ==
    IF Len(midiData) <= EMPTY_MIDI_SIZE
    THEN response' = "NoNotes" /\ downloaded' = << >>
    ELSE response' = "Ok" /\ downloaded' = midiData

HandleRejected(e) ==
    /\ response' = "Failed"
    /\ downloaded' = << >>

\* resolve / reject settle the promise once; later calls change nothing.  The
\* promise's value is a sequence: the bytes, or the one reason of a rejection.
resolve(midiData) ==
    IF promise.state = "pending"
    THEN promise' = [state |-> "resolved", value |-> midiData] /\ HandleResolved(midiData)
    ELSE UNCHANGED << promise, response, downloaded >>

reject(err) ==
    IF promise.state = "pending"
    THEN promise' = [state |-> "rejected", value |-> << err >>] /\ HandleRejected(err)
    ELSE UNCHANGED << promise, response, downloaded >>

\* Mutant: restore() runs first, and the open note is closed at the position
\* it has set.
finish_RestoreFirst(seg) ==
    /\ intervalId' = Null
    /\ SetSeg(CloseOpenNote(seg, orig.time))
    /\ video' = restore(video)
    /\ resolve(buildMidiFile(CloseOpenNote(seg, orig.time).notes))

finish(seg) ==
    /\ intervalId' = Null
    /\ SetSeg(CloseOpenNote(seg, video.currentTime))
    /\ video' = restore(video)
    /\ resolve(buildMidiFile(CloseOpenNote(seg, video.currentTime).notes))

abort(v, err) ==
    /\ intervalId' = Null
    /\ video' = restore(v)
    /\ reject(err)


\* ------------------------------------------------ audio-capture.js
\* The module's four variables.  A node or context is Null or present; the
\* source node is named by the video element it was created from.
NoCapture == [audioCtx |-> Null, analyser |-> Null, sourceNode |-> Null, capturedVideo |-> Null,
              sourceConnected |-> FALSE, analyserConnected |-> FALSE]

PageVideo == 1

\* sourceNode.disconnect() and analyser.disconnect(); the source node is kept.
teardownAudioCapture(cap) ==
    [cap EXCEPT !.analyser = Null, !.sourceConnected = FALSE, !.analyserConnected = FALSE]

destroyAudioCapture(cap) == NoCapture

\* The path of initAudioCapture that reuses the pipeline of the same video.
Reuses(cap, v) == cap.audioCtx # Null /\ cap.capturedVideo = v

\* What initAudioCapture has torn down before it looks for a source node.
BeforeSource(cap, v) ==
    IF cap.capturedVideo # Null /\ cap.capturedVideo # v THEN destroyAudioCapture(cap) ELSE cap

\* initAudioCapture calls createMediaElementSource(v).
CreatesSource(cap, v) ==
    /\ ~Reuses(cap, v)
    /\ BeforeSource(cap, v).sourceNode = Null \/ BeforeSource(cap, v).capturedVideo # v

\* createMediaElementSource throws for an element that already has a source
\* node, and initAudioCapture lets the exception through.
InitThrows(cap, v, made) == CreatesSource(cap, v) /\ made[v] > 0

\* The module's variables after initAudioCapture(v), returned or thrown.
initAudioCapture(cap, v, made) ==
    IF Reuses(cap, v)
    THEN [cap EXCEPT !.analyser = 1, !.sourceConnected = TRUE, !.analyserConnected = TRUE]
    ELSE LET c == BeforeSource(cap, v)
         IN  IF InitThrows(cap, v, made)
             THEN [c EXCEPT !.audioCtx = 1, !.analyser = 1]
             ELSE [audioCtx |-> 1, analyser |-> 1, sourceNode |-> v, capturedVideo |-> v,
                   sourceConnected |-> TRUE, analyserConnected |-> TRUE]

\* The calls of createMediaElementSource so far, after initAudioCapture(v).
Created(cap, v, made) ==
    IF CreatesSource(cap, v) THEN [made EXCEPT ![v] = @ + 1] ELSE made

\* ---------------------------------------- the page besides one export
NoContent ==
    /\ isActive = FALSE
    /\ animFrameId = Null
    /\ cleanupVideoSync = FALSE
    /\ playbackRate = 1
    /\ lastFrameTime = Null
    /\ analyser = FALSE
    /\ ratechangeQueued = FALSE
    /\ storedActive = FALSE
    /\ fallingNotes = << >>
    /\ sustainedNote = << >>
    /\ spawned = 0
    /\ frameClock = 0
    /\ detected = FALSE

NoPage ==
    /\ NoContent
    /\ capture = NoCapture
    /\ created = [v \in 1 .. NumVideos |-> 0]
    /\ exports = << >>
    /\ requests = 0
    /\ popup = [open |-> FALSE, exportBtnDisabled |-> FALSE]
    /\ lastStatus = "none"
    /\ resuming = 0
    /\ loops = 0
    /\ attached = 0

\* ---------------------------------------------- exporter: the actions
NoSeg ==
    /\ notes = << >>
    /\ currentNote = Absent
    /\ noteStartTime = 0

NoHistory ==
    /\ tickCount = 0
    /\ lastTickTime = 0
    /\ timeWentBack = FALSE
    /\ cancelRequested = FALSE
    /\ errorReported = FALSE
    /\ obs = << >>
    /\ finalTime = -1
    /\ finalizations = 0
    /\ serOut = << >>
    /\ progressCalls = 0
    /\ lastProgress = << >>

NoCall ==
    /\ arg = << >>
    /\ ret = << >>

NoExport ==
    /\ orig = [time |-> 0, rate |-> 1, muted |-> FALSE, paused |-> TRUE]
    /\ intervalId = Null
    /\ cancelled = FALSE
    /\ promise = [state |-> "none", value |-> << >>]
    /\ seekedListener = FALSE
    /\ errorListener = FALSE
    /\ response = "none"
    /\ downloaded = << >>

\* The page before the export: a video somewhere in its resource, playing or
\* paused (a video at its end has been paused by reaching it).  The resource
\* has a positive duration, or none (video.duration is 0 or NaN, which the
\* test duration > 0 does not tell apart).
Init ==
    /\ \E d \in { 0, Duration }, r \in PageRates, m \in BOOLEAN, p \in BOOLEAN :
          \E t \in 0 .. d :
             /\ t = d => p
             /\ video = [currentTime |-> t, playbackRate |-> r, muted |-> m,
                         paused |-> p, seeking |-> FALSE, duration |-> d]
    /\ NoExport
    /\ NoSeg
    /\ NoHistory
    /\ NoCall
    /\ NoPage

\* exportVideoToMidi called by handleExportMidi: lines 146-157 and 233-245.
ExportVideoToMidi ==
    /\ promise.state = "none"
    /\ orig' = [time |-> video.currentTime, rate |-> video.playbackRate,
                muted |-> video.muted, paused |-> video.paused]
    /\ SetSeg([notes |-> << >>, currentNote |-> Absent, noteStartTime |-> 0])
    /\ intervalId' = Null
    /\ cancelled' = FALSE
    /\ video' = [video EXCEPT !.muted = TRUE,
                              !.playbackRate = EXPORT_PLAYBACK_RATE,
                              !.currentTime = 0,
                              !.seeking = TRUE]
    /\ seekedListener' = TRUE
    /\ errorListener' = TRUE
    /\ promise' = [state |-> "pending", value |-> << >>]
    /\ UNCHANGED << response, downloaded, tickCount, lastTickTime, timeWentBack,
                    cancelRequested, errorReported, obs, finalTime, finalizations, serOut >>
    /\ UNCHANGED << progressCalls, lastProgress, arg, ret >>
    /\ UNCHANGED pageVars

\* The source finishes a seek and fires 'seeked'.  The first one after the
\* export began runs startProcessing (lines 237-240): play() either starts
\* playback or, for a paused video the browser does not allow to play, rejects,
\* and its catch handler aborts right after the timer was set.
Seeked(playAllowed) ==
    /\ promise.state # "none"
    /\ video.seeking
    /\ playAllowed \/ video.paused
    /\ seekedListener' = FALSE
    /\ IF seekedListener
       THEN IF playAllowed
            THEN /\ video' = [video EXCEPT !.seeking = FALSE, !.paused = FALSE]
                 /\ intervalId' = TimerId
                 /\ UNCHANGED << promise, response, downloaded >>
            ELSE abort([video EXCEPT !.seeking = FALSE], "PlayRejection")
       ELSE /\ playAllowed
            /\ video' = [video EXCEPT !.seeking = FALSE]
            /\ UNCHANGED << intervalId, promise, response, downloaded >>
    /\ UNCHANGED << orig, notes, currentNote, noteStartTime, cancelled, errorListener,
                    tickCount, lastTickTime, timeWentBack, cancelRequested,
                    errorReported, obs, finalTime, finalizations, serOut >>
    /\ UNCHANGED << progressCalls, lastProgress, arg, ret >>
    /\ UNCHANGED pageVars

\* Mutant: progress is reported whatever the duration is.
reportProgress_Always(currentTime, duration) ==
    /\ progressCalls' = progressCalls + 1
    /\ lastProgress' = IF currentTime >= duration THEN << 1, 1 >> ELSE << currentTime, duration >>

\* tick, lines 201-204: onProgress(Math.min(currentTime / duration, 1)), the
\* quotient kept as << numerator, denominator >>.
reportProgress(currentTime, duration) ==
    IF duration > 0
    THEN /\ progressCalls' = progressCalls + 1
         /\ lastProgress' = IF currentTime >= duration THEN << 1, 1 >> ELSE << currentTime, duration >>
    ELSE UNCHANGED << progressCalls, lastProgress >>

\* The sampling timer fires: tick(), lines 192-231.
Tick(midi) ==
    /\ intervalId # Null
    /\ tickCount < MaxTicks
    /\ tickCount' = tickCount + 1
    /\ IF cancelled
       THEN /\ abort(video, "Cancelled")
            /\ UNCHANGED << notes, currentNote, noteStartTime, lastTickTime, timeWentBack,
                            progressCalls, lastProgress >>
       ELSE LET currentTime == video.currentTime
                seg == Observe(Seg, midi, currentTime)
            IN  /\ lastTickTime' = currentTime
                /\ reportProgress(currentTime, video.duration)
                /\ timeWentBack' = (timeWentBack \/ (tickCount > 0 /\ currentTime < lastTickTime))
                /\ IF Ended(video) \/ (video.duration > 0 /\ currentTime >= video.duration)
                   THEN finish(seg)
                   ELSE /\ SetSeg(seg)
                        /\ UNCHANGED << video, intervalId, promise, response, downloaded >>
    /\ UNCHANGED << orig, cancelled, seekedListener, errorListener,
                    cancelRequested, errorReported, obs, finalTime, finalizations, serOut >>
    /\ UNCHANGED << arg, ret >>
    /\ UNCHANGED pageVars

\* Mutant: the listener hands the event it received to abort, not a new Error.
SourceError_RawEvent ==
    /\ errorListener
    /\ errorListener' = FALSE
    /\ errorReported' = (errorReported \/ promise.state = "pending")
    /\ abort(video, "ErrorEvent")
    /\ UNCHANGED << orig, notes, currentNote, noteStartTime, cancelled, seekedListener,
                    tickCount, lastTickTime, timeWentBack, cancelRequested, obs, finalTime, finalizations, serOut >>
    /\ UNCHANGED << progressCalls, lastProgress, arg, ret >>
    /\ UNCHANGED pageVars

\* The source fires 'error': the once-listener of line 243 aborts.
SourceError ==
    /\ errorListener
    /\ errorListener' = FALSE
    /\ errorReported' = (errorReported \/ promise.state = "pending")
    /\ abort(video, "SourceError")
    /\ UNCHANGED << orig, notes, currentNote, noteStartTime, cancelled, seekedListener,
                    tickCount, lastTickTime, timeWentBack, cancelRequested, obs, finalTime, finalizations, serOut >>
    /\ UNCHANGED << progressCalls, lastProgress, arg, ret >>
    /\ UNCHANGED pageVars

\* Playback proceeds while the timer runs; a video that reaches its end is
\* paused there by the browser.
Advance(t) ==
    /\ intervalId # Null
    /\ ~video.paused
    /\ ~video.seeking
    /\ t > video.currentTime
    /\ t <= video.duration
    /\ video' = [video EXCEPT !.currentTime = t, !.paused = (t = video.duration)]
    /\ UNCHANGED << orig, notes, currentNote, noteStartTime, intervalId, cancelled,
                    promise, seekedListener, errorListener, response, downloaded,
                    tickCount, lastTickTime, timeWentBack, cancelRequested,
                    errorReported, obs, finalTime, finalizations, serOut >>
    /\ UNCHANGED << progressCalls, lastProgress, arg, ret >>
    /\ UNCHANGED pageVars

\* The user drags the page's progress bar backwards while the timer runs.
UserSeekBack(t) ==
    /\ intervalId # Null
    /\ ~video.seeking
    /\ t < video.currentTime
    /\ video' = [video EXCEPT !.currentTime = t]
    /\ UNCHANGED << orig, notes, currentNote, noteStartTime, intervalId, cancelled,
                    promise, seekedListener, errorListener, response, downloaded,
                    tickCount, lastTickTime, timeWentBack, cancelRequested,
                    errorReported, obs, finalTime, finalizations, serOut >>
    /\ UNCHANGED << progressCalls, lastProgress, arg, ret >>
    /\ UNCHANGED pageVars

\* The caller wants the running export cancelled.  exportVideoToMidi takes
\* (video, analyser, audioCtx, onProgress) and returns only the promise: the
\* closure's flag is written at its declaration and nowhere else, so the
\* request reaches nothing.
RequestCancel ==
    /\ promise.state = "pending"
    /\ ~cancelRequested
    /\ cancelRequested' = TRUE
    /\ UNCHANGED << video, orig, notes, currentNote, noteStartTime, intervalId, cancelled,
                    promise, seekedListener, errorListener, response, downloaded,
                    tickCount, lastTickTime, timeWentBack, errorReported, obs, finalTime, finalizations, serOut >>
    /\ UNCHANGED << progressCalls, lastProgress, arg, ret >>
    /\ UNCHANGED pageVars

Next ==
    \/ ExportVideoToMidi
    \/ \E playAllowed \in BOOLEAN : Seeked(playAllowed)
    \/ \E midi \in Candidates : Tick(midi)
    \/ SourceError
    \/ \E t \in 0 .. Duration : Advance(t)
    \/ \E t \in 0 .. Duration : UserSeekBack(t)
    \/ RequestCancel

Spec == Init /\ [][Next]_vars

\* ------------------------------------- the segmentation on its own
\* The segmentation of tick and finish, fed candidates at strictly increasing
\* times and finalized at a later time.
\* A step of the timer: some Tick(midi), which is possible exactly when the
\* timer is set and the bound on ticks is not used up.
TimerFires == intervalId # Null /\ tickCount < MaxTicks /\ tickCount' = tickCount + 1

\* The exporter with its timer: setInterval keeps running tick for as long as
\* the timer is set.
LiveSpec == Spec /\ WF_tickCount(TimerFires)

SegInit ==
    /\ video = [currentTime |-> 0, playbackRate |-> 1, muted |-> FALSE,
                paused |-> TRUE, seeking |-> FALSE, duration |-> Duration]
    /\ NoExport
    /\ NoSeg
    /\ NoHistory
    /\ NoCall
    /\ NoPage

SegClock == IF obs = << >> THEN -1 ELSE Last(obs).time

SegObserve(midi, d) ==
    /\ finalTime = -1
    /\ Len(obs) < MaxObs
    /\ SetSeg(Observe(Seg, midi, SegClock + d))
    /\ obs' = Append(obs, [midi |-> midi, time |-> SegClock + d])
    /\ UNCHANGED << video, orig, intervalId, cancelled, promise, seekedListener,
                    errorListener, response, downloaded, tickCount, lastTickTime,
                    timeWentBack, cancelRequested, errorReported, finalTime, finalizations, serOut >>
    /\ UNCHANGED << progressCalls, lastProgress, arg, ret >>
    /\ UNCHANGED pageVars

SegFinalize(d) ==
    /\ finalTime = -1
    /\ SetSeg(CloseOpenNote(Seg, SegClock + d))
    /\ finalTime' = SegClock + d
    /\ finalizations' = 1
    /\ UNCHANGED << video, orig, intervalId, cancelled, promise, seekedListener,
                    errorListener, response, downloaded, tickCount, lastTickTime,
                    timeWentBack, cancelRequested, errorReported, obs, serOut >>
    /\ UNCHANGED << progressCalls, lastProgress, arg, ret >>
    /\ UNCHANGED pageVars

\* The finalization of finish, lines 173-177, run once more at a later time.
SegFinalizeAgain(d) ==
    /\ finalTime # -1
    /\ finalizations < MaxFinalizations
    /\ SetSeg(CloseOpenNote(Seg, finalTime + finalizations * d))
    /\ finalizations' = finalizations + 1
    /\ UNCHANGED << video, orig, intervalId, cancelled, promise, seekedListener,
                    errorListener, response, downloaded, tickCount, lastTickTime,
                    timeWentBack, cancelRequested, errorReported, obs, finalTime, serOut >>
    /\ UNCHANGED << progressCalls, lastProgress, arg, ret >>
    /\ UNCHANGED pageVars

SegNext ==
    \/ \E midi \in Candidates, d \in 1 .. MaxStep : SegObserve(midi, d)
    \/ \E d \in 1 .. MaxStep : SegFinalize(d)
    \/ \E d \in 1 .. MaxStep : SegFinalizeAgain(d)

SegSpec == SegInit /\ [][SegNext]_vars

\* ---------------------------------------- buildMidiFile on its own
\* Pitches and times of the events handed to buildMidiFile: in and out of the
\* 7-bit range, times that round down, up and not at all, a time before the
\* origin.
SerPitches == { 108, 200 }
\* A time more than MAX_DELTA ticks after every other one.
FarTime == 279621 * UnitsPerSecond
SerTimes == { -13, 0, 13, UnitsPerSecond, FarTime }
SerNotes == [midi : SerPitches, startTime : SerTimes, endTime : SerTimes]

SerInit ==
    /\ video = [currentTime |-> 0, playbackRate |-> 1, muted |-> FALSE,
                paused |-> TRUE, seeking |-> FALSE, duration |-> Duration]
    /\ NoExport
    /\ \E n \in 0 .. MaxNotes : notes \in [1 .. n -> SerNotes]
    /\ currentNote = Absent
    /\ noteStartTime = 0
    /\ NoHistory
    /\ NoCall
    /\ NoPage

SerBuild ==
    /\ serOut = << >>
    /\ serOut' = buildMidiFile(notes)
    /\ UNCHANGED << video, orig, notes, currentNote, noteStartTime, intervalId,
                    cancelled, promise, seekedListener, errorListener, response,
                    downloaded, tickCount, lastTickTime, timeWentBack,
                    cancelRequested, errorReported, obs, finalTime, finalizations >>
    /\ UNCHANGED << progressCalls, lastProgress, arg, ret >>
    /\ UNCHANGED pageVars

SerNext == SerBuild

SerSpec == SerInit /\ [][SerNext]_vars


\* A page on which no export runs.
IdlePage ==
    /\ video = [currentTime |-> 0, playbackRate |-> 1, muted |-> FALSE,
                paused |-> TRUE, seeking |-> FALSE, duration |-> Duration]
    /\ NoExport
    /\ NoSeg
    /\ NoHistory

\* ======================================= content script and falling notes
BASE_FALL_SPEED == 200
PIANO_MIDI_MIN == 21
PIANO_MIDI_MAX == 108
\* Timestamps of requestAnimationFrame are multiples of FrameUnit milliseconds.
FrameUnit == 50
\* The cap of frame's dt, 0.1 s, in milliseconds.
MAX_DT_MS == 100
FrameId == 1

\* ------------------------------------------------- falling-notes.js
\* A block is [id, midi, active, y, height]; the sustained block is named by
\* its id and pitch, in a sequence that is empty for null.
FN == [fallingNotes |-> fallingNotes, sustainedNote |-> sustainedNote, spawned |-> spawned]

SetFN(fn) ==
    /\ fallingNotes' = fn.fallingNotes
    /\ sustainedNote' = fn.sustainedNote
    /\ spawned' = fn.spawned

\* getKeyPosition returns null for a pitch that is not a key of the keyboard.
HasKey(midi) == midi >= PIANO_MIDI_MIN /\ midi <= PIANO_MIDI_MAX

\* note.active = b for the block that sustainedNote refers to.
SetActive(list, id, b) ==
    [i \in DOMAIN list |-> IF list[i].id = id THEN [list[i] EXCEPT !.active = b] ELSE list[i]]

Release(fn) ==
    IF fn.sustainedNote # << >>
    THEN [fn EXCEPT !.fallingNotes = SetActive(@, fn.sustainedNote[1].id, FALSE),
                    !.sustainedNote = << >>]
    ELSE fn

updateNotes(fn, detectedMidi) ==
    IF detectedMidi >= 0
    THEN IF fn.sustainedNote # << >> /\ fn.sustainedNote[1].midi = detectedMidi
         THEN [fn EXCEPT !.fallingNotes = SetActive(@, fn.sustainedNote[1].id, TRUE)]
         ELSE LET r == Release(fn)
              IN  IF HasKey(detectedMidi)
                  THEN [fallingNotes |-> Append(r.fallingNotes,
                                                [id |-> r.spawned + 1, midi |-> detectedMidi,
                                                 active |-> TRUE, y |-> 0, height |-> 0]),
                        sustainedNote |-> << [id |-> r.spawned + 1, midi |-> detectedMidi] >>,
                        spawned |-> r.spawned + 1]
                  ELSE r
    ELSE Release(fn)

\* speed * dt in pixels, for dt in milliseconds.
Fall(dtMs, rate) == (BASE_FALL_SPEED * (IF rate = 0 THEN 1 ELSE rate) * dtMs) \div 1000

Fallen(note, px) ==
    IF note.active THEN [note EXCEPT !.height = @ + px] ELSE [note EXCEPT !.y = @ + px]

\* advanceNotes on a canvas of the given height, which is canvas.height, a
\* whole number of pixels, and 0 for a player that is not laid out.
advanceNotesOn(list, dtMs, canvasHeight, rate) ==
    SelectSeq([i \in DOMAIN list |-> Fallen(list[i], Fall(dtMs, rate))],
              LAMBDA note : note.y < canvasHeight)

advanceNotes(list, dtMs, rate) == advanceNotesOn(list, dtMs, CanvasHeight, rate)

clearAllNotes ==
    /\ fallingNotes' = << >>
    /\ sustainedNote' = << >>
    /\ UNCHANGED spawned

\* ------------------------------------------------------- content.js
\* The page is a YouTube watch page: it has one video element, PageVideo, and
\* the player element the overlay is put into.  Whether its audio context is
\* suspended when activate() looks at it is the browser's choice; it stays
\* suspended for as long as a call of resume() is pending.
\* activate() from createOverlay() to its return: one more set of resize
\* and video-sync listeners is attached, whose cleanup functions replace the
\* ones retained, and startRenderLoop() requests one more render callback,
\* whose id replaces the one retained.
activated ==
    /\ cleanupVideoSync' = TRUE
    /\ attached' = attached + 1
    /\ playbackRate' = video.playbackRate
    /\ isActive' = TRUE
    /\ lastFrameTime' = Null
    /\ clearAllNotes
    /\ animFrameId' = FrameId
    /\ loops' = loops + 1
    /\ lastStatus' = "active"

\* The popup's toggle stores the preference and sends 'activate', which
\* activate(color) handles; the audio context is running.
Activate ==
    /\ ~isActive
    /\ resuming = 0
    /\ attached < MaxAttached
    /\ storedActive' = TRUE
    /\ capture' = initAudioCapture(capture, PageVideo, created)
    /\ created' = Created(capture, PageVideo, created)
    /\ IF InitThrows(capture, PageVideo, created)
       THEN /\ lastStatus' = "error"
            /\ UNCHANGED << isActive, animFrameId, cleanupVideoSync, playbackRate,
                            lastFrameTime, analyser, fallingNotes, sustainedNote, spawned,
                            loops, attached >>
       ELSE /\ analyser' = TRUE
            /\ activated
    /\ UNCHANGED << ratechangeQueued, frameClock, detected, exports, requests, popup, resuming >>
    /\ UNCHANGED << exporterVars, arg, ret >>

\* The popup's toggle sends 'activate' and the audio context is suspended:
\* activate() up to its await on audioCtx.resume().
ActivateSuspends ==
    /\ ~isActive
    /\ attached + resuming < MaxAttached
    /\ ~InitThrows(capture, PageVideo, created)
    /\ storedActive' = TRUE
    /\ capture' = initAudioCapture(capture, PageVideo, created)
    /\ created' = Created(capture, PageVideo, created)
    /\ analyser' = TRUE
    /\ resuming' = resuming + 1
    /\ UNCHANGED << isActive, animFrameId, cleanupVideoSync, playbackRate, lastFrameTime,
                    ratechangeQueued, fallingNotes, sustainedNote, spawned, frameClock,
                    detected, exports, requests, popup, lastStatus, loops, attached >>
    /\ UNCHANGED << exporterVars, arg, ret >>

\* audioCtx.resume() has resolved: one waiting activate() runs to its end.
ActivateResumes ==
    /\ resuming > 0
    /\ resuming' = resuming - 1
    /\ activated
    /\ UNCHANGED << analyser, ratechangeQueued, storedActive, frameClock, detected,
                    capture, created, exports, requests, popup >>
    /\ UNCHANGED << exporterVars, arg, ret >>

\* deactivate(), for a script that is active: the render callback and the
\* listeners it still has a handle of are cancelled and removed.
deactivate ==
    /\ isActive' = FALSE
    /\ animFrameId' = Null
    /\ loops' = IF animFrameId # Null THEN loops - 1 ELSE loops
    /\ cleanupVideoSync' = FALSE
    /\ attached' = IF cleanupVideoSync THEN attached - 1 ELSE attached
    /\ capture' = teardownAudioCapture(capture)
    /\ clearAllNotes
    /\ analyser' = FALSE
    /\ lastFrameTime' = Null
    /\ lastStatus' = "inactive"

\* The popup's toggle stores the preference and sends 'deactivate'.
Deactivate ==
    /\ isActive
    /\ storedActive' = FALSE
    /\ deactivate
    /\ UNCHANGED << playbackRate, ratechangeQueued, frameClock, detected,
                    created, exports, requests, popup, resuming >>
    /\ UNCHANGED << exporterVars, arg, ret >>

\* The same for a script that is not active: deactivate() returns at once.
DeactivateInactive ==
    /\ ~isActive
    /\ storedActive
    /\ storedActive' = FALSE
    /\ UNCHANGED << isActive, animFrameId, cleanupVideoSync, playbackRate, lastFrameTime,
                    analyser, ratechangeQueued, fallingNotes, sustainedNote, spawned,
                    frameClock, detected, capture, created, exports, requests, popup,
                    lastStatus, toggleVars >>
    /\ UNCHANGED << exporterVars, arg, ret >>

\* A render callback runs in a script that is not active: frame() returns
\* without requesting the next one.
FrameInactive ==
    /\ loops > 0
    /\ ~isActive
    /\ loops' = loops - 1
    /\ UNCHANGED << contentVars, capture, created, exports, requests, popup, lastStatus,
                    resuming, attached >>
    /\ UNCHANGED << exporterVars, arg, ret >>

\* Mutant: a paused video gets the same frame as a playing one.
Frame_IgnoresPause(timestamp, midi) ==
    /\ animFrameId # Null
    /\ frameClock < MaxClock * FrameUnit
    /\ frameClock' = timestamp
    /\ IF ~isActive
       THEN /\ animFrameId' = Null
            /\ UNCHANGED << lastFrameTime, fallingNotes, sustainedNote, spawned, detected >>
       ELSE /\ animFrameId' = FrameId
            /\ LET dt == IF lastFrameTime # Null
                         THEN Min(timestamp - lastFrameTime, MAX_DT_MS)
                         ELSE 0
                   fn == updateNotes(FN, midi)
               IN  /\ lastFrameTime' = timestamp
                   /\ detected' = TRUE
                   /\ SetFN([fn EXCEPT !.fallingNotes = advanceNotes(@, dt, playbackRate)])
    /\ UNCHANGED << isActive, cleanupVideoSync, playbackRate, analyser, ratechangeQueued,
                    storedActive, capture, created, exports, requests, popup, toggleVars, lastStatus >>
    /\ UNCHANGED << exporterVars, arg, ret >>

\* Mutant: the render loop keeps its sustained pitch in the exporter's variable.
Frame_SharesSustained(timestamp, midi) ==
    /\ animFrameId # Null
    /\ frameClock < MaxClock * FrameUnit
    /\ frameClock' = timestamp
    /\ isActive
    /\ animFrameId' = FrameId
    /\ IF video.paused \/ Ended(video)
       THEN /\ lastFrameTime' = Null
            /\ detected' = FALSE
            /\ UNCHANGED << fallingNotes, sustainedNote, spawned, currentNote >>
       ELSE LET dt == IF lastFrameTime # Null
                      THEN Min(timestamp - lastFrameTime, MAX_DT_MS)
                      ELSE 0
                fn == updateNotes(FN, midi)
            IN  /\ lastFrameTime' = timestamp
                /\ detected' = TRUE
                /\ currentNote' = IF midi >= 0 THEN midi ELSE Absent
                /\ SetFN([fn EXCEPT !.fallingNotes = advanceNotes(@, dt, playbackRate)])
    /\ UNCHANGED << isActive, cleanupVideoSync, playbackRate, analyser, ratechangeQueued,
                    storedActive, capture, created, exports, requests, popup, toggleVars, lastStatus >>
    /\ UNCHANGED << video, orig, notes, noteStartTime, intervalId, cancelled,
                    promise, seekedListener, errorListener, response, downloaded,
                    tickCount, lastTickTime, timeWentBack, cancelRequested,
                    errorReported, obs, finalTime, finalizations, serOut,
                    progressCalls, lastProgress, arg, ret >>

\* The browser runs the scheduled frame(timestamp) of startRenderLoop; midi is
\* what detectNoteEnhanced returns for the analyser's data.
Frame(timestamp, midi) ==
    /\ animFrameId # Null
    /\ frameClock < MaxClock * FrameUnit
    /\ frameClock' = timestamp
    /\ IF ~isActive
       THEN /\ animFrameId' = Null
            /\ UNCHANGED << lastFrameTime, fallingNotes, sustainedNote, spawned, detected >>
       ELSE /\ animFrameId' = FrameId
            /\ IF video.paused \/ Ended(video)
               THEN /\ lastFrameTime' = Null
                    /\ detected' = FALSE
                    /\ UNCHANGED << fallingNotes, sustainedNote, spawned >>
               ELSE LET dt == IF lastFrameTime # Null
                              THEN Min(timestamp - lastFrameTime, MAX_DT_MS)
                              ELSE 0
                        fn == updateNotes(FN, midi)
                    IN  /\ lastFrameTime' = timestamp
                        /\ detected' = TRUE
                        /\ SetFN([fn EXCEPT !.fallingNotes = advanceNotes(@, dt, playbackRate)])
    /\ UNCHANGED << isActive, cleanupVideoSync, playbackRate, analyser, ratechangeQueued,
                    storedActive, capture, created, exports, requests, popup, toggleVars, lastStatus >>
    /\ UNCHANGED << exporterVars, arg, ret >>


\* The user plays or pauses the video.
PlayPause ==
    /\ ~Ended(video)
    /\ video' = [video EXCEPT !.paused = ~@]
    /\ UNCHANGED << orig, notes, currentNote, noteStartTime, intervalId, cancelled,
                    promise, seekedListener, errorListener, response, downloaded,
                    tickCount, lastTickTime, timeWentBack, cancelRequested,
                    errorReported, obs, finalTime, finalizations, serOut, progressCalls, lastProgress >>
    /\ UNCHANGED << pageVars, arg, ret >>

\* Playback proceeds; a video that reaches its end is paused there.
Playback(t) ==
    /\ ~video.paused
    /\ ~video.seeking
    /\ t > video.currentTime
    /\ t <= video.duration
    /\ video' = [video EXCEPT !.currentTime = t, !.paused = (t = video.duration)]
    /\ UNCHANGED << orig, notes, currentNote, noteStartTime, intervalId, cancelled,
                    promise, seekedListener, errorListener, response, downloaded,
                    tickCount, lastTickTime, timeWentBack, cancelRequested,
                    errorReported, obs, finalTime, finalizations, serOut, progressCalls, lastProgress >>
    /\ UNCHANGED << pageVars, arg, ret >>

\* The user seeks: assigning currentTime starts a seek.
UserSeek(t) ==
    /\ ~video.seeking
    /\ t # video.currentTime
    /\ video' = [video EXCEPT !.currentTime = t, !.seeking = TRUE]
    /\ UNCHANGED << orig, notes, currentNote, noteStartTime, intervalId, cancelled,
                    promise, seekedListener, errorListener, response, downloaded,
                    tickCount, lastTickTime, timeWentBack, cancelRequested,
                    errorReported, obs, finalTime, finalizations, serOut, progressCalls, lastProgress >>
    /\ UNCHANGED << pageVars, arg, ret >>

\* The seek completes and 'seeked' is dispatched: handleSeeked of
\* attachVideoSync runs onSeeked while the listeners are attached.
HandleSeeked ==
    /\ video.seeking
    /\ video' = [video EXCEPT !.seeking = FALSE]
    /\ IF cleanupVideoSync
       THEN clearAllNotes
       ELSE UNCHANGED << fallingNotes, sustainedNote, spawned >>
    /\ UNCHANGED << orig, notes, currentNote, noteStartTime, intervalId, cancelled,
                    promise, seekedListener, errorListener, response, downloaded,
                    tickCount, lastTickTime, timeWentBack, cancelRequested,
                    errorReported, obs, finalTime, finalizations, serOut, progressCalls, lastProgress >>
    /\ UNCHANGED << isActive, animFrameId, cleanupVideoSync, playbackRate, lastFrameTime,
                    analyser, ratechangeQueued, storedActive, frameClock, detected,
                    capture, created, exports, requests, popup, toggleVars, lastStatus, arg, ret >>

\* The user picks another playback rate; the video queues 'ratechange'.
SetRate(r) ==
    /\ r # video.playbackRate
    /\ video' = [video EXCEPT !.playbackRate = r]
    /\ ratechangeQueued' = TRUE
    /\ UNCHANGED << orig, notes, currentNote, noteStartTime, intervalId, cancelled,
                    promise, seekedListener, errorListener, response, downloaded,
                    tickCount, lastTickTime, timeWentBack, cancelRequested,
                    errorReported, obs, finalTime, finalizations, serOut, progressCalls, lastProgress >>
    /\ UNCHANGED << isActive, animFrameId, cleanupVideoSync, playbackRate, lastFrameTime,
                    analyser, storedActive, fallingNotes, sustainedNote, spawned,
                    frameClock, detected, capture, created, exports, requests, popup, toggleVars, lastStatus, arg, ret >>

\* 'ratechange' is dispatched: handleRateChange of attachVideoSync hands
\* video.playbackRate to onRateChange while the listeners are attached.
HandleRateChange ==
    /\ ratechangeQueued
    /\ ratechangeQueued' = FALSE
    /\ playbackRate' = IF cleanupVideoSync THEN video.playbackRate ELSE playbackRate
    /\ UNCHANGED << isActive, animFrameId, cleanupVideoSync, lastFrameTime,
                    analyser, storedActive, fallingNotes, sustainedNote, spawned,
                    frameClock, detected, capture, created, exports, requests, popup, toggleVars, lastStatus >>
    /\ UNCHANGED << exporterVars, arg, ret >>

\* YouTube has navigated to another video without a page load: the listener
\* for 'yt-navigate-finish'.  The video element stays and plays the new
\* resource from its start.
YtNavigateFinish ==
    /\ IF isActive
       THEN deactivate
       ELSE UNCHANGED << isActive, animFrameId, cleanupVideoSync, capture, fallingNotes,
                         sustainedNote, spawned, analyser, lastFrameTime, lastStatus,
                         loops, attached >>
    /\ storedActive' = FALSE
    /\ video' = [video EXCEPT !.currentTime = 0, !.paused = FALSE, !.seeking = FALSE]
    /\ UNCHANGED << orig, notes, currentNote, noteStartTime, intervalId, cancelled,
                    promise, seekedListener, errorListener, response, downloaded,
                    tickCount, lastTickTime, timeWentBack, cancelRequested,
                    errorReported, obs, finalTime, finalizations, serOut, progressCalls, lastProgress >>
    /\ UNCHANGED << playbackRate, ratechangeQueued, frameClock, detected,
                    created, exports, requests, popup, resuming, arg, ret >>

\* A page with a video somewhere in its resource and the extension installed.
ContentInit ==
    /\ \E r \in PageRates, p \in BOOLEAN, t \in 0 .. Duration :
          /\ t = Duration => p
          /\ video = [currentTime |-> t, playbackRate |-> r, muted |-> FALSE,
                      paused |-> p, seeking |-> FALSE, duration |-> Duration]
    /\ NoExport
    /\ NoSeg
    /\ NoHistory
    /\ NoCall
    /\ NoPage

ContentNext ==
    \/ Activate
    \/ Deactivate
    \/ \E k \in 1 .. MaxFrameGap, midi \in Candidates : Frame(frameClock + k * FrameUnit, midi)
    \/ PlayPause
    \/ \E t \in 0 .. Duration : Playback(t)
    \/ \E t \in 0 .. Duration : UserSeek(t)
    \/ HandleSeeked
    \/ \E r \in PageRates : SetRate(r)
    \/ HandleRateChange
    \/ YtNavigateFinish

ContentSpec == ContentInit /\ [][ContentNext]_vars


\* ================================ exportMidi requests and their exports
\* Every call of exportVideoToMidi has its own closure; of each one the page
\* keeps here what it recorded as the original state (lines 148-151) and how
\* far it is: "seeking" until its 'seeked' listener ran, "sampling" while its
\* timer runs, "settled" after finish() or abort().
InFlight == { i \in DOMAIN exports : exports[i].state # "settled" }

\* The popup is opened: popup.js builds the page anew and lines 55-59 set the
\* status from the stored preference, which enables the export button.
PopupOpens ==
    /\ ~popup.open
    /\ popup' = [open |-> TRUE, exportBtnDisabled |-> FALSE]
    /\ UNCHANGED << contentVars, capture, created, exports, requests, lastStatus, toggleVars >>
    /\ UNCHANGED << exporterVars, arg, ret >>

PopupCloses ==
    /\ popup.open
    /\ popup' = [open |-> FALSE, exportBtnDisabled |-> FALSE]
    /\ UNCHANGED << contentVars, capture, created, exports, requests, lastStatus, toggleVars >>
    /\ UNCHANGED << exporterVars, arg, ret >>

\* setStatus(state) in an open popup: 'exporting' disables the export
\* button, 'active' enables it.
setStatus(p, state) ==
    IF p.open
    THEN [p EXCEPT !.exportBtnDisabled = IF state = "exporting" THEN TRUE
                                         ELSE IF state = "active" THEN FALSE ELSE @]
    ELSE p

\* The answer to 'exportMidi' reaches an open popup: lines 124-127.
Answered(p) == IF p.open THEN [p EXCEPT !.exportBtnDisabled = FALSE] ELSE p

\* The user presses Export MIDI (the row is shown while the stored preference
\* is 'active'): popup.js lines 117-135 up to the sending of the message.
ExportClick ==
    /\ popup.open
    /\ storedActive
    /\ ~popup.exportBtnDisabled
    /\ requests + Len(exports) < MaxExports
    /\ popup' = setStatus(popup, "exporting")
    /\ requests' = requests + 1
    /\ UNCHANGED << contentVars, capture, created, exports, lastStatus, toggleVars >>
    /\ UNCHANGED << exporterVars, arg, ret >>

\* The content script receives 'exportMidi': handleExportMidi up to its await,
\* with the synchronous part of exportVideoToMidi (lines 146-157, 233-245).
HandleExportMidi ==
    /\ requests > 0
    /\ requests' = requests - 1
    /\ IF ~isActive \/ ~analyser
       THEN /\ popup' = Answered(popup)
            /\ UNCHANGED << video, exports, lastStatus >>
       ELSE /\ popup' = setStatus(popup, "exporting")
            /\ lastStatus' = "exporting"
            /\ exports' = Append(exports, [orig |-> [time |-> video.currentTime,
                                                     rate |-> video.playbackRate,
                                                     muted |-> video.muted,
                                                     paused |-> video.paused],
                                           state |-> "seeking"])
            /\ video' = [video EXCEPT !.muted = TRUE,
                                      !.playbackRate = EXPORT_PLAYBACK_RATE,
                                      !.currentTime = 0,
                                      !.seeking = TRUE]
    /\ UNCHANGED << orig, notes, currentNote, noteStartTime, intervalId, cancelled,
                    promise, seekedListener, errorListener, response, downloaded,
                    tickCount, lastTickTime, timeWentBack, cancelRequested,
                    errorReported, obs, finalTime, finalizations, serOut,
                    progressCalls, lastProgress >>
    /\ UNCHANGED << contentVars, capture, created, toggleVars, arg, ret >>

\* A seek of the video completes: every export still waiting for 'seeked'
\* runs startProcessing, which plays the video and sets its timer.
ExportsSeeked ==
    /\ video.seeking
    /\ \E i \in DOMAIN exports : exports[i].state = "seeking"
    /\ video' = [video EXCEPT !.seeking = FALSE, !.paused = FALSE]
    /\ exports' = [i \in DOMAIN exports |->
                     IF exports[i].state = "seeking"
                     THEN [exports[i] EXCEPT !.state = "sampling"]
                     ELSE exports[i]]
    /\ UNCHANGED << orig, notes, currentNote, noteStartTime, intervalId, cancelled,
                    promise, seekedListener, errorListener, response, downloaded,
                    tickCount, lastTickTime, timeWentBack, cancelRequested,
                    errorReported, obs, finalTime, finalizations, serOut,
                    progressCalls, lastProgress >>
    /\ UNCHANGED << contentVars, capture, created, requests, popup, toggleVars, lastStatus, arg, ret >>

\* Export i settles: its tick has read the termination condition and finish()
\* ran, or the source reported an error and abort() ran.  Both call restore()
\* with what this export recorded, and handleExportMidi goes on after its
\* await: it sends the status 'active' and answers the request.
ExportSettles(i) ==
    /\ i \in InFlight
    /\ video' = restoreTo(video, exports[i].orig)
    /\ exports' = [exports EXCEPT ![i].state = "settled"]
    /\ popup' = Answered(setStatus(popup, "active"))
    /\ lastStatus' = "active"
    /\ UNCHANGED << orig, notes, currentNote, noteStartTime, intervalId, cancelled,
                    promise, seekedListener, errorListener, response, downloaded,
                    tickCount, lastTickTime, timeWentBack, cancelRequested,
                    errorReported, obs, finalTime, finalizations, serOut,
                    progressCalls, lastProgress >>
    /\ UNCHANGED << contentVars, capture, created, requests, toggleVars, arg, ret >>

\* The seek that restore() started completes after the last export settled.
RestoreSeeked ==
    /\ video.seeking
    /\ \A i \in DOMAIN exports : exports[i].state # "seeking"
    /\ video' = [video EXCEPT !.seeking = FALSE]
    /\ UNCHANGED << orig, notes, currentNote, noteStartTime, intervalId, cancelled,
                    promise, seekedListener, errorListener, response, downloaded,
                    tickCount, lastTickTime, timeWentBack, cancelRequested,
                    errorReported, obs, finalTime, finalizations, serOut,
                    progressCalls, lastProgress >>
    /\ UNCHANGED << pageVars, arg, ret >>

\* The extension is inactive on a page whose video the user has set up: its
\* rate, its mute flag, playing or paused somewhere in the resource.
RequestInit ==
    /\ \E r \in PageRates, m \in BOOLEAN, p \in BOOLEAN, t \in 0 .. Duration :
          /\ t = Duration => p
          /\ video = [currentTime |-> t, playbackRate |-> r, muted |-> m,
                      paused |-> p, seeking |-> FALSE, duration |-> Duration]
    /\ NoExport
    /\ NoSeg
    /\ NoHistory
    /\ NoCall
    /\ NoPage

RequestNext ==
    \/ Activate
    \/ Deactivate
    \/ PopupOpens
    \/ PopupCloses
    \/ ExportClick
    \/ HandleExportMidi
    \/ ExportsSeeked
    \/ \E i \in DOMAIN exports : ExportSettles(i)
    \/ RestoreSeeked

RequestSpec == RequestInit /\ [][RequestNext]_vars


\* ===================================== one export beside the render loop
\* onSeeked of the content script, for a 'seeked' event of the video.
OnSeeked ==
    /\ cleanupVideoSync
    /\ fallingNotes # << >>
    /\ clearAllNotes
    /\ UNCHANGED << isActive, animFrameId, cleanupVideoSync, playbackRate, lastFrameTime,
                    analyser, ratechangeQueued, storedActive, frameClock, detected,
                    capture, created, exports, requests, popup, toggleVars, lastStatus >>
    /\ UNCHANGED << exporterVars, arg, ret >>

\* onRateChange of the content script, for a 'ratechange' event of the video.
OnRateChange ==
    /\ cleanupVideoSync
    /\ playbackRate # video.playbackRate
    /\ playbackRate' = video.playbackRate
    /\ UNCHANGED << isActive, animFrameId, cleanupVideoSync, lastFrameTime,
                    analyser, ratechangeQueued, storedActive, fallingNotes, sustainedNote,
                    spawned, frameClock, detected, capture, created, exports, requests, popup, toggleVars, lastStatus >>
    /\ UNCHANGED << exporterVars, arg, ret >>

\* The extension has been activated on a playing video: the state activate()
\* leaves.
PageInit ==
    /\ video = [currentTime |-> 0, playbackRate |-> 1, muted |-> FALSE,
                paused |-> FALSE, seeking |-> FALSE, duration |-> Duration]
    /\ NoExport
    /\ NoSeg
    /\ NoHistory
    /\ NoCall
    /\ isActive = TRUE
    /\ animFrameId = FrameId
    /\ cleanupVideoSync = TRUE
    /\ playbackRate = 1
    /\ lastFrameTime = Null
    /\ analyser = TRUE
    /\ ratechangeQueued = FALSE
    /\ storedActive = TRUE
    /\ fallingNotes = << >>
    /\ sustainedNote = << >>
    /\ spawned = 0
    /\ frameClock = 0
    /\ detected = FALSE
    /\ capture = initAudioCapture(NoCapture, PageVideo, [v \in 1 .. NumVideos |-> 0])
    /\ created = [v \in 1 .. NumVideos |-> IF v = PageVideo THEN 1 ELSE 0]
    /\ exports = << >>
    /\ requests = 0
    /\ popup = [open |-> FALSE, exportBtnDisabled |-> FALSE]
    /\ lastStatus = "active"
    /\ resuming = 0
    /\ loops = 1
    /\ attached = 1

\* The export of Spec, started by handleExportMidi, and the render loop with
\* the content script's video listeners, in every order.  Render frames come
\* MaxFrameGap units apart.
PageNext ==
    \/ ExportVideoToMidi
    \/ \E playAllowed \in BOOLEAN : Seeked(playAllowed)
    \/ \E midi \in Candidates : Tick(midi)
    \/ SourceError
    \/ \E t \in 0 .. Duration : Advance(t)
    \/ \E midi \in Candidates : Frame(frameClock + MaxFrameGap * FrameUnit, midi)
    \/ OnSeeked
    \/ OnRateChange

PageSpec == PageInit /\ [][PageNext]_vars


\* ============================================ the audio capture on its own
\* Any sequence of the three functions of audio-capture.js, for the video
\* elements 1 .. NumVideos.
InitAudioCapture(v) ==
    /\ CreatesSource(capture, v) => created[v] < MaxCreates
    /\ capture' = initAudioCapture(capture, v, created)
    /\ created' = Created(capture, v, created)
    /\ UNCHANGED << contentVars, exports, requests, popup, toggleVars, lastStatus >>
    /\ UNCHANGED << exporterVars, arg, ret >>

TeardownAudioCapture ==
    /\ capture' = teardownAudioCapture(capture)
    /\ UNCHANGED << contentVars, created, exports, requests, popup, toggleVars, lastStatus >>
    /\ UNCHANGED << exporterVars, arg, ret >>

DestroyAudioCapture ==
    /\ capture' = destroyAudioCapture(capture)
    /\ UNCHANGED << contentVars, created, exports, requests, popup, toggleVars, lastStatus >>
    /\ UNCHANGED << exporterVars, arg, ret >>

CaptureInit ==
    /\ IdlePage
    /\ NoCall
    /\ NoPage

CaptureNext ==
    \/ \E v \in 1 .. NumVideos : InitAudioCapture(v)
    \/ TeardownAudioCapture
    \/ DestroyAudioCapture

CaptureSpec == CaptureInit /\ [][CaptureNext]_vars


\* ============================== activate and deactivate in every order
ToggleInit ==
    /\ \E r \in PageRates, p \in BOOLEAN :
          video = [currentTime |-> 0, playbackRate |-> r, muted |-> FALSE,
                   paused |-> p, seeking |-> FALSE, duration |-> Duration]
    /\ NoExport
    /\ NoSeg
    /\ NoHistory
    /\ NoCall
    /\ NoPage

\* The popup's messages in any number and order, the resolution of resume()
\* and the render callbacks, one MaxFrameGap after the other.
ToggleNext ==
    \/ Activate
    \/ ActivateSuspends
    \/ ActivateResumes
    \/ Deactivate
    \/ DeactivateInactive
    \/ \E midi \in Candidates : Frame(frameClock + MaxFrameGap * FrameUnit, midi)
    \/ FrameInactive

ToggleSpec == ToggleInit /\ [][ToggleNext]_vars


\* ================================= falling-notes.js, called in any order
\* Pitches given to updateNotes: silence, two keys, and a pitch above the
\* keyboard, for which getKeyPosition returns null.
NotePitches == Candidates \cup { PIANO_MIDI_MAX + 1 }

\* Canvas heights given to advanceNotes.
CanvasHeights == { 0, CanvasHeight }

UpdateNotes(detectedMidi) ==
    /\ spawned < MaxSpawned
    /\ SetFN(updateNotes(FN, detectedMidi))
    /\ UNCHANGED << isActive, animFrameId, cleanupVideoSync, playbackRate, lastFrameTime,
                    analyser, ratechangeQueued, storedActive, frameClock, detected,
                    capture, created, exports, requests, popup, toggleVars, lastStatus >>
    /\ UNCHANGED << exporterVars, arg, ret >>

\* frameClock is the time of the call: dtMs after the call before.
AdvanceNotes(dtMs, canvasHeight, rate) ==
    /\ frameClock < MaxClock * FrameUnit
    /\ frameClock' = frameClock + dtMs
    /\ fallingNotes' = advanceNotesOn(fallingNotes, dtMs, canvasHeight, rate)
    /\ UNCHANGED << isActive, animFrameId, cleanupVideoSync, playbackRate, lastFrameTime,
                    analyser, ratechangeQueued, storedActive, sustainedNote, spawned, detected,
                    capture, created, exports, requests, popup, toggleVars, lastStatus >>
    /\ UNCHANGED << exporterVars, arg, ret >>

ClearAllNotes ==
    /\ fallingNotes # << >> \/ sustainedNote # << >>
    /\ clearAllNotes
    /\ UNCHANGED << isActive, animFrameId, cleanupVideoSync, playbackRate, lastFrameTime,
                    analyser, ratechangeQueued, storedActive, frameClock, detected,
                    capture, created, exports, requests, popup, toggleVars, lastStatus >>
    /\ UNCHANGED << exporterVars, arg, ret >>

NotesInit ==
    /\ video = [currentTime |-> 0, playbackRate |-> 1, muted |-> FALSE,
                paused |-> FALSE, seeking |-> FALSE, duration |-> Duration]
    /\ NoExport
    /\ NoSeg
    /\ NoHistory
    /\ NoCall
    /\ NoPage

NotesNext ==
    \/ \E detectedMidi \in NotePitches : UpdateNotes(detectedMidi)
    \/ \E dtMs \in { FrameUnit, MAX_DT_MS }, canvasHeight \in CanvasHeights, rate \in PageRates :
          AdvanceNotes(dtMs, canvasHeight, rate)
    \/ ClearAllNotes

NotesSpec == NotesInit /\ [][NotesNext]_vars

\* ================================== functions checked on their own
\* -------------------------------------------------- writeVLQ on its own
\* Arguments of writeVLQ: the smallest ones, those around every change of the
\* number of bytes, and the largest ones buildMidiFile passes.
VlqValues ==
    (0 .. VlqSpan)
      \cup UNION { ((128 ^ k) - VlqSpan) .. ((128 ^ k) + VlqSpan) : k \in 1 .. 3 }
      \cup ((MAX_DELTA - VlqSpan) .. MAX_DELTA)

VlqInit ==
    /\ IdlePage
    /\ NoPage
    /\ arg \in VlqValues
    /\ ret = << >>

VlqCall ==
    /\ ret = << >>
    /\ ret' = writeVLQ(arg)
    /\ UNCHANGED << exporterVars, arg >>
    /\ UNCHANGED pageVars

VlqNext == VlqCall

VlqSpec == VlqInit /\ [][VlqNext]_vars

\* ----------------------------- detectNote and detectNoteEnhanced on their own
\* Magnitudes of a bin: empty, at the noise gate, above it and well above it.
DbLevels == { NegInf, AMPLITUDE_THRESHOLD_DB, AMPLITUDE_THRESHOLD_DB + 10,
              AMPLITUDE_THRESHOLD_DB + 30 }
Frames == [1 .. BinCount -> DbLevels]
\* Sample rates that make a bin 20 Hz wide (bin 0 lies below the piano) and
\* 2000 Hz wide (the last bins lie above it).
SampleRates == { 40 * BinCount, 4000 * BinCount }
\* What the estimator does with a frame: a frequency of 0, 440 or 5000 Hz with
\* a confidence of 0.5 or 0.6, an exception, or nothing because it is absent.
Estimates ==
    [kind : { "result" }, pitch : { 0, 440000, 5000000 }, pitchConfidence : { 50, 60 }]
      \cup [kind : { "throws", "absent" }, pitch : { 0 }, pitchConfidence : { 0 }]

DetInit ==
    /\ IdlePage
    /\ NoPage
    /\ arg \in [freqData : Frames, sampleRate : SampleRates, essentia : Estimates]
    /\ ret = << >>

DetectNote ==
    /\ ret = << >>
    /\ ret' = << [fn |-> "detectNote", completion |-> "return",
                  value |-> detectNote(arg.freqData, arg.sampleRate)] >>
    /\ UNCHANGED << exporterVars, arg >>
    /\ UNCHANGED pageVars

DetectNoteEnhanced ==
    /\ ret = << >>
    /\ LET r == detectNoteEnhanced(arg.freqData, arg.essentia, arg.sampleRate)
       IN  ret' = << [fn |-> "detectNoteEnhanced", completion |-> r.completion,
                      value |-> r.value] >>
    /\ UNCHANGED << exporterVars, arg >>
    /\ UNCHANGED pageVars

DetNext ==
    \/ DetectNote
    \/ DetectNoteEnhanced

DetSpec == DetInit /\ [][DetNext]_vars

\* ------------------------------------------------ freqToMidi on its own
\* Pitches at the ends of the piano, middle C and the reference A.
FreqPitches == { MIDI_MIN, 60, 69, MIDI_MAX }
\* Frequencies around a pitch: within FreqSpan units of its center, of the two
\* ends of its span and of its neighbours' centers; and none at all.
FreqPoints(p) ==
    UNION { (x - FreqSpan) .. (x + FreqSpan) :
              x \in { midiToFreq(p - 1), SemitoneFloor(p), midiToFreq(p),
                      SemitoneFloor(p + 1), midiToFreq(p + 1) } }
      \cup { -1000, 0 }

FreqInit ==
    /\ IdlePage
    /\ NoPage
    /\ \E p \in FreqPitches : \E f \in FreqPoints(p) : arg = [pitch |-> p, freq |-> f]
    /\ ret = << >>

FreqToMidi ==
    /\ ret = << >>
    /\ ret' = << freqToMidi(arg.freq) >>
    /\ UNCHANGED << exporterVars, arg >>
    /\ UNCHANGED pageVars

FreqNext == FreqToMidi

FreqSpec == FreqInit /\ [][FreqNext]_vars

\* =================================================== the claims
\* A standard decoder of the file's track chunk, used to read the bytes back.
RECURSIVE DecodeVLQ(_, _, _)
DecodeVLQ(bytes, pos, acc) ==
    IF bytes[pos] >= 128
    THEN DecodeVLQ(bytes, pos + 1, acc * 128 + (bytes[pos] - 128))
    ELSE [value |-> acc * 128 + bytes[pos], next |-> pos + 1]

RECURSIVE DecodeTrack(_, _)
DecodeTrack(bytes, pos) ==
    IF pos > Len(bytes)
    THEN << >>
    ELSE LET d == DecodeVLQ(bytes, pos, 0)
             status == bytes[d.next]
             size == IF status = 255 THEN 3 + bytes[d.next + 2]
                     ELSE IF status \in 192 .. 223 THEN 2 ELSE 3
         IN  << [delta |-> d.value, status |-> status,
                 data |-> SubSeq(bytes, d.next + 1, d.next + size - 1)] >>
               \o DecodeTrack(bytes, d.next + size)

\* The sub-events of a file: what follows the 14-byte header and the 8 bytes
\* of the track chunk's own header.
SubEvents(bytes) == DecodeTrack(bytes, 23)

IsNoteSubEvent(ev) == ev.status \in 128 .. 159

PositiveNotes(ns) == { i \in DOMAIN ns : ns[i].endTime > ns[i].startTime }

Settles == promise.state = "pending" /\ promise'.state # "pending"

TickRuns == tickCount' = tickCount + 1

\* C1: whenever the promise settles, the source's rate, mute flag, pause state
\* and position are those it had when the export was started.
C1_RestoredOnSettle ==
    [][Settles => /\ video'.playbackRate = orig.rate
                  /\ video'.muted = orig.muted
                  /\ video'.paused = orig.paused
                  /\ video'.currentTime = orig.time]_vars

\* C2: once the source has reported an error to a pending export, the export
\* is rejected with that cause, no bytes are delivered, no sampling timer is
\* running or started, and no sampling tick runs.
C2_ErrorStopsSampling ==
    [][/\ errorReported' => /\ promise'.state = "rejected"
                            /\ promise'.value = << "SourceError" >>
                            /\ downloaded' = << >>
                            /\ intervalId' = Null
       /\ errorReported => ~TickRuns]_vars

\* C3: a tick that runs after the caller asked a pending export to be
\* cancelled samples nothing, stops the timer, restores the source and
\* rejects the export as Cancelled.
C3_CancelHonouredAtNextTick ==
    [][(cancelRequested /\ promise.state = "pending" /\ TickRuns)
          => /\ promise'.state = "rejected"
             /\ promise'.value = << "Cancelled" >>
             /\ << notes', currentNote', noteStartTime' >> = << notes, currentNote, noteStartTime >>
             /\ intervalId' = Null
             /\ video' = restore(video)]_vars

\* C4 as stated: every rejection is a SourceError or a Cancelled.
C4_TwoFailureKinds ==
    promise.state = "rejected" => promise.value \in { << "SourceError" >>, << "Cancelled" >> }

\* C4: every rejection is a SourceError, a Cancelled, or the reason the
\* source gave for rejecting the play() request.
C4_FailureKinds ==
    promise.state = "rejected"
        => promise.value \in { << "SourceError" >>, << "Cancelled" >>, << "PlayRejection" >> }

C4_Witness ==
    /\ promise.state = "rejected"
    /\ promise.value = << "PlayRejection" >>
    /\ response = "Failed"

\* The maximal runs of consecutive identical present candidates in obs.
RunStarts(i) == obs[i].midi # Absent /\ (i = 1 \/ obs[i - 1].midi # obs[i].midi)

RunEndTime(i) ==
    LET later == { j \in (i + 1) .. Len(obs) : obs[j].midi # obs[i].midi }
    IN  IF later = { }
        THEN finalTime
        ELSE obs[CHOOSE j \in later : \A k \in later : j <= k].time

RunEvents ==
    LET starts == SelectSeq([i \in 1 .. Len(obs) |-> i], RunStarts)
    IN  [k \in 1 .. Len(starts) |->
            [midi |-> obs[starts[k]].midi,
             startTime |-> obs[starts[k]].time,
             endTime |-> RunEndTime(starts[k])]]

\* C5: after finalization the note sequence is exactly one event per maximal
\* run of identical present candidates, in run order, from the run's first
\* tick to the first later tick with another candidate (or the finalization).
C5_OneEventPerRun ==
    finalTime # -1 => (Len(notes) = Len(RunEvents) /\ \A k \in DOMAIN notes : notes[k] = RunEvents[k])

\* [60, 60, 62, absent, 60] at 0..4, finalized at 5.
C5_Witness ==
    /\ finalTime = 5
    /\ obs = << [midi |-> 60, time |-> 0], [midi |-> 60, time |-> 1], [midi |-> 62, time |-> 2],
                [midi |-> Absent, time |-> 3], [midi |-> 60, time |-> 4] >>
    /\ notes = << [midi |-> 60, startTime |-> 0, endTime |-> 2],
                  [midi |-> 62, startTime |-> 2, endTime |-> 3],
                  [midi |-> 60, startTime |-> 4, endTime |-> 5] >>

\* C6: while the reported time has not decreased between ticks, consecutive
\* events do not overlap, and the one open note starts no earlier than the
\* last closed event ends.
C6_NoOverlap ==
    ~timeWentBack
        => /\ \A i \in 1 .. (Len(notes) - 1) : notes[i + 1].startTime >= notes[i].endTime
           /\ (currentNote # Absent /\ notes # << >>) => noteStartTime >= Last(notes).endTime

C6_Witness ==
    /\ ~timeWentBack
    /\ Len(notes) >= 2
    /\ currentNote # Absent
    /\ promise.state = "pending"

\* C7 as stated: every appended event has endTime > startTime.
C7_EveryEventPositive ==
    \A i \in DOMAIN notes : notes[i].endTime > notes[i].startTime

\* C7: while the reported time has not decreased between ticks every appended
\* event has endTime >= startTime; the file of a resolved export holds a
\* note-start and a note-end for exactly the events with endTime > startTime.
C7_PositiveWhenSerialized ==
    /\ ~timeWentBack => \A i \in DOMAIN notes : notes[i].endTime >= notes[i].startTime
    /\ promise.state = "resolved"
          => Len(SelectSeq(SubEvents(promise.value), IsNoteSubEvent))
                = 2 * Cardinality(PositiveNotes(notes))

C7_Witness ==
    /\ promise.state = "resolved"
    /\ ~timeWentBack
    /\ \E i \in DOMAIN notes : notes[i].endTime = notes[i].startTime
    /\ \E i \in DOMAIN notes : notes[i].endTime > notes[i].startTime

\* C8 as stated: each tick after the first reads a later time than the tick
\* before it.
C8_TickTimesStrictlyIncrease ==
    [][(TickRuns /\ tickCount > 0) => lastTickTime' > lastTickTime]_vars

\* C8: while the reported time has not decreased between ticks, the events
\* are in non-decreasing startTime order, also when handed to the serializer.
C8_StartTimesOrdered ==
    ~timeWentBack
        => \A i \in 1 .. (Len(notes) - 1) : notes[i].startTime <= notes[i + 1].startTime

C8_Witness ==
    /\ promise.state = "resolved"
    /\ ~timeWentBack
    /\ Len(notes) >= 2
    /\ \E i \in 1 .. (Len(notes) - 1) : notes[i].startTime < notes[i + 1].startTime
    /\ \E i \in 1 .. (Len(notes) - 1) : notes[i].startTime = notes[i + 1].startTime

\* C9: a resolved export's file is 64 bytes long exactly when no event has a
\* positive duration and longer otherwise; handleExportMidi answers "no notes"
\* in the first case and downloads the file in the second.
C9_EmptyFileIffNoNotes ==
    promise.state = "resolved"
        => /\ (Len(promise.value) = 64) <=> (PositiveNotes(notes) = { })
           /\ (Len(promise.value) > 64) <=> (PositiveNotes(notes) # { })
           /\ (response = "NoNotes" /\ downloaded = << >>) <=> (PositiveNotes(notes) = { })
           /\ (response = "Ok" /\ downloaded = promise.value) <=> (PositiveNotes(notes) # { })

C9_WitnessNoNotes ==
    /\ promise.state = "resolved"
    /\ notes # << >>
    /\ PositiveNotes(notes) = { }
    /\ response = "NoNotes"

\* C10: the track is the four leading events, then one note-start (0x90,
\* velocity 80) and one note-end (0x80, velocity 0) per event of positive
\* duration, then the end-of-track marker; pitch and velocity bytes are in
\* 0..127, and an event's pitch in 21..108 is carried unchanged.
C10_NoteSubEvents ==
    serOut # << >>
        => LET evs == SubEvents(serOut)
               n == Cardinality(PositiveNotes(notes))
               body == SubSeq(evs, 5, Len(evs) - 1)
               Ons(p) == { i \in DOMAIN body : body[i].status = 144 /\ body[i].data[1] = p }
               Offs(p) == { i \in DOMAIN body : body[i].status = 128 /\ body[i].data[1] = p }
           IN  /\ Len(evs) = 4 + 2 * n + 1
               /\ << evs[1].status, evs[2].status, evs[3].status, evs[4].status >> = << 255, 255, 255, 192 >>
               /\ << evs[1].data[1], evs[2].data[1], evs[3].data[1] >> = << 3, 88, 81 >>
               /\ Last(evs).status = 255 /\ Last(evs).data = << 47, 0 >>
               /\ \A i \in DOMAIN body :
                     /\ body[i].status \in { 144, 128 }
                     /\ Len(body[i].data) = 2
                     /\ body[i].data[1] \in 0 .. 127
                     /\ body[i].data[2] = (IF body[i].status = 144 THEN 80 ELSE 0)
               /\ \A p \in 0 .. 127 :
                     /\ Cardinality(Ons(p)) = Cardinality(Offs(p))
                     /\ p \in 21 .. 108
                          => Cardinality(Ons(p)) >=
                                Cardinality({ i \in PositiveNotes(notes) : notes[i].midi = p })
               /\ Cardinality({ i \in DOMAIN body : body[i].status = 144 }) = n

C10_Witness ==
    /\ serOut # << >>
    /\ Len(notes) = 2
    /\ Cardinality(PositiveNotes(notes)) = 1
    /\ \E i \in PositiveNotes(notes) : notes[i].midi = 108
    /\ \E i \in DOMAIN notes : notes[i].endTime < notes[i].startTime

\* The note sub-events of a file: what lies between the four leading events
\* and the end-of-track marker.
NoteBody(bytes) == LET evs == SubEvents(bytes) IN SubSeq(evs, 5, Len(evs) - 1)

\* C11: the note sub-events of the track are those of the input in ascending
\* order of time, and of a note-end and a note-start at one time the note-end
\* comes first.
C11_SortedEndBeforeStart ==
    serOut # << >>
        => LET body == NoteBody(serOut)
               evs == midiEvents(notes)
           IN  /\ Len(body) = Len(evs)
               /\ \A i \in DOMAIN body :
                     /\ body[i].status = evs[i].type
                     /\ body[i].data[1] = And7F(evs[i].note)
               /\ \A i, j \in DOMAIN evs :
                     i < j => /\ evs[i].time <= evs[j].time
                              /\ evs[i].time = evs[j].time
                                   => ~(evs[i].type = NOTE_ON /\ evs[j].type = NOTE_OFF)

\* An input given out of order whose second event ends when the first starts.
C11_Witness ==
    /\ serOut # << >>
    /\ Len(notes) = 2
    /\ PositiveNotes(notes) = { 1, 2 }
    /\ notes[2].startTime < notes[1].startTime
    /\ notes[2].endTime = notes[1].startTime

\* The position a decoder reaches after the first i note sub-events.
RECURSIVE DecodedTick(_, _)
DecodedTick(body, i) == IF i = 0 THEN 0 ELSE DecodedTick(body, i - 1) + body[i].delta

\* The tick of the i-th sorted sub-event, 0 before the first.
TickOf(evs, i) == IF i = 0 THEN 0 ELSE EventTick(evs[i])

\* C12 as stated: every delta is in 0..0x0FFFFFFF, the decoded positions never
\* decrease, and every sub-event is decoded at max(0, round(time * 960)),
\* whatever the gaps between consecutive sub-events.
C12_DecodedTickIsRoundedTime ==
    serOut # << >>
        => LET body == NoteBody(serOut)
               evs == midiEvents(notes)
           IN  \A i \in DOMAIN body :
                  /\ body[i].delta \in 0 .. MAX_DELTA
                  /\ DecodedTick(body, i - 1) <= DecodedTick(body, i)
                  /\ DecodedTick(body, i) = EventTick(evs[i])

\* C12 amended: every delta is in 0..0x0FFFFFFF and is the gap to the previous
\* sub-event's tick or, for a wider gap, 0x0FFFFFFF; the decoded positions
\* never decrease; a sub-event with no wider gap before it is decoded at
\* max(0, round(time * 960)), and one second is 960 ticks.
C12_DecodedTickUpToClamp ==
    serOut # << >>
        => LET body == NoteBody(serOut)
               evs == midiEvents(notes)
               Gap(i) == TickOf(evs, i) - TickOf(evs, i - 1)
           IN  /\ \A i \in DOMAIN body :
                     /\ body[i].delta \in 0 .. MAX_DELTA
                     /\ body[i].delta = Min(MAX_DELTA, Gap(i))
                     /\ DecodedTick(body, i - 1) <= DecodedTick(body, i)
                     /\ (\A k \in 1 .. i : Gap(k) <= MAX_DELTA)
                          => DecodedTick(body, i) = EventTick(evs[i])
               /\ (Len(notes) = 1 /\ notes[1].startTime = 0
                                  /\ notes[1].endTime = UnitsPerSecond)
                     => << body[1].delta, body[2].delta >> = << 0, TICKS_PER_SECOND >>

\* A file with a gap wider than 0x0FFFFFFF ticks and a sub-event before the
\* origin.
C12_Witness ==
    /\ serOut # << >>
    /\ \E i \in DOMAIN NoteBody(serOut) : NoteBody(serOut)[i].delta = MAX_DELTA
    /\ \E i \in PositiveNotes(notes) : notes[i].startTime < 0

\* C14: the file starts with the 14-byte header (MThd, length 6, format 0, one
\* track, division 480), then 'MTrk' and the big-endian 32-bit count of the
\* bytes after it, and the track ends with 00 FF 2F 00.
C14_Framing ==
    serOut # << >>
        => LET n == Len(serOut)
           IN  /\ \A i \in DOMAIN serOut : serOut[i] \in 0 .. 255
               /\ SubSeq(serOut, 1, 14) = << 77, 84, 104, 100, 0, 0, 0, 6, 0, 0, 0, 1, 1, 224 >>
               /\ SubSeq(serOut, 15, 18) = << 77, 84, 114, 107 >>
               /\ serOut[19] * 16777216 + serOut[20] * 65536 + serOut[21] * 256 + serOut[22]
                     = n - 22
               /\ SubSeq(serOut, n - 3, n) = << 0, 255, 47, 0 >>

C14_Witness ==
    /\ serOut # << >>
    /\ Cardinality(PositiveNotes(notes)) = 2
    /\ Len(serOut) > EMPTY_MIDI_SIZE

\* C13: for v in 0..0x0FFFFFFF writeVLQ(v) is 1 to 4 bytes, bit 7 set on all
\* but the last, which decode big-endian base 128 to v; writeVLQ(0) is the
\* single byte 0.
C13_VlqRoundTrip ==
    ret # << >>
        => LET n == Len(ret)
               d == DecodeVLQ(ret, 1, 0)
           IN  /\ n \in 1 .. 4
               /\ \A i \in 1 .. n - 1 : ret[i] \in 128 .. 255
               /\ ret[n] \in 0 .. 127
               /\ d.value = arg /\ d.next = n + 1
               /\ arg = 0 => ret = << 0 >>

C13_Witness ==
    /\ arg = 128 ^ 2
    /\ ret = << 129, 128, 0 >>

\* The bins of the call's frame that lie inside the piano's bin range.
InRangeBins ==
    BinStart(Len(arg.freqData), arg.sampleRate) .. BinEnd(Len(arg.freqData), arg.sampleRate)

PianoPitches == MIDI_MIN .. MIDI_MAX

\* C15: detectNote and detectNoteEnhanced return -1 or an integer pitch in
\* 21..108, whatever the frame, the sample rate and the estimator.
C15_AbsentOrPianoPitch ==
    ret # << >> => ret[1].value \in { -1 } \cup PianoPitches

\* C16: when no bin inside the piano's bin range is strictly above -50 dB,
\* detectNote returns -1, whatever the bins outside the range hold.
C16_GateRejects ==
    (/\ ret # << >>
     /\ ret[1].fn = "detectNote"
     /\ \A i \in InRangeBins : ~(Bin(arg.freqData, i) > AMPLITUDE_THRESHOLD_DB))
        => ret[1].value = -1

\* A frame whose only loud bin is outside the range, with a bin of the range
\* exactly at the gate.
C16_Witness ==
    /\ ret # << >>
    /\ ret[1].fn = "detectNote"
    /\ ret[1].value = -1
    /\ \E i \in InRangeBins : Bin(arg.freqData, i) = AMPLITUDE_THRESHOLD_DB
    /\ \A i \in InRangeBins : Bin(arg.freqData, i) <= AMPLITUDE_THRESHOLD_DB
    /\ \E i \in (0 .. Len(arg.freqData) - 1) \ InRangeBins :
          Bin(arg.freqData, i) > AMPLITUDE_THRESHOLD_DB

\* The estimator is there and its result is not confident or has no frequency.
LowConfidence ==
    /\ arg.essentia.kind = "result"
    /\ (arg.essentia.pitchConfidence <= 50 \/ arg.essentia.pitch <= 0)

\* C17 as stated: with an estimate of confidence at most 0.5 or of frequency
\* at most 0, detectNoteEnhanced returns what detectNote returns for the frame.
C17_LowConfidenceFallsBack ==
    (ret # << >> /\ ret[1].fn = "detectNoteEnhanced" /\ LowConfidence)
        => ret[1].value = detectNote(arg.freqData, arg.sampleRate)

\* C17 amended: with such an estimate detectNoteEnhanced returns -1, whatever
\* detectNote returns for the frame.
C17_LowConfidenceIsAbsent ==
    (ret # << >> /\ ret[1].fn = "detectNoteEnhanced" /\ LowConfidence)
        => ret[1].completion = "return" /\ ret[1].value = -1

C17_Witness ==
    /\ ret # << >>
    /\ ret[1].fn = "detectNoteEnhanced"
    /\ LowConfidence
    /\ arg.essentia.pitch > 0
    /\ detectNote(arg.freqData, arg.sampleRate) \in PianoPitches
    /\ ret[1].value = -1

\* C18: with the estimator absent or throwing, detectNoteEnhanced returns
\* what detectNote returns for the frame and throws nothing.
C18_FallbackWhenUnavailable ==
    (ret # << >> /\ ret[1].fn = "detectNoteEnhanced"
                 /\ arg.essentia.kind \in { "absent", "throws" })
        => /\ ret[1].completion = "return"
           /\ ret[1].value = detectNote(arg.freqData, arg.sampleRate)

C18_Witness ==
    /\ ret # << >>
    /\ ret[1].fn = "detectNoteEnhanced"
    /\ arg.essentia.kind = "throws"
    /\ ret[1].value \in PianoPitches

\* C19 as stated: a frequency strictly between the centers of the pitches
\* below and above p (within one semitone of p's center) is converted to p,
\* and a frequency of at most 0 to -1.
C19_WithinOneSemitone ==
    ret # << >>
        => /\ (midiToFreq(arg.pitch - 1) < arg.freq /\ arg.freq < midiToFreq(arg.pitch + 1))
                => ret[1] = arg.pitch
           /\ arg.freq <= 0 => ret[1] = -1

\* C19 amended: a frequency within half a semitone of p's center (from
\* 440 * 2^((p - 69.5) / 12) up to, not including, 440 * 2^((p - 68.5) / 12)),
\* the center itself among them, is converted to p; a frequency within one
\* semitone of the center to p - 1, p or p + 1; a frequency of at most 0 to -1.
C19_WithinHalfSemitone ==
    ret # << >>
        => /\ (SemitoneFloor(arg.pitch) <= arg.freq /\ arg.freq < SemitoneFloor(arg.pitch + 1))
                => ret[1] = arg.pitch
           /\ arg.freq = midiToFreq(arg.pitch) => ret[1] = arg.pitch
           /\ (midiToFreq(arg.pitch - 1) < arg.freq /\ arg.freq < midiToFreq(arg.pitch + 1))
                => ret[1] \in { arg.pitch - 1, arg.pitch, arg.pitch + 1 }
           /\ arg.freq <= 0 => ret[1] = -1

\* The highest frequency still converted to middle C.
C19_Witness ==
    /\ ret = << 60 >>
    /\ arg.pitch = 60
    /\ arg.freq = SemitoneFloor(61) - 1
    /\ arg.freq > midiToFreq(60)

\* C20: a sampling tick at which the duration is positive gives the progress
\* sink exactly one value, currentTime / duration or 1 if that is less; a tick
\* at which it is not positive gives it none, and no other step gives it any;
\* every value given lies in [0, 1].
C20_ProgressPerTick ==
    /\ [][IF TickRuns /\ ~cancelled /\ video.duration > 0
          THEN /\ progressCalls' = progressCalls + 1
               /\ Len(lastProgress') = 2
               /\ lastProgress'[1] * video.duration
                     = Min(video.currentTime, video.duration) * lastProgress'[2]
          ELSE progressCalls' = progressCalls /\ lastProgress' = lastProgress]_vars
    /\ [](lastProgress # << >>
            => /\ lastProgress[2] > 0
               /\ 0 <= lastProgress[1]
               /\ lastProgress[1] <= lastProgress[2])

\* Two ticks have reported, the later one a value strictly between 0 and 1.
C20_Witness ==
    /\ tickCount = 2
    /\ progressCalls = 2
    /\ lastProgress # << >>
    /\ 0 < lastProgress[1]
    /\ lastProgress[1] < lastProgress[2]

Resolves == promise.state = "pending" /\ promise'.state = "resolved"

TerminationCondition ==
    Ended(video) \/ (video.duration > 0 /\ video.currentTime >= video.duration)

Sampling == intervalId # Null /\ tickCount < MaxTicks

\* The export has resolved, or the source has left its end with the timer
\* still running.
ResolvedOrLeftEnd ==
    promise.state = "resolved" \/ (intervalId # Null /\ ~TerminationCondition)

\* C22: once the seek has completed and the timer runs, a source at its end
\* leads to the export resolving with bytes, unless the source leaves its end
\* again or an error of the source stops the timer (which it can do only
\* while the error listener is still registered); an export resolves at no
\* other moment than a tick that reads the termination condition, and a
\* request to cancel it settles nothing.
C22_EndReachedResolves ==
    /\ (Sampling /\ TerminationCondition /\ errorListener) ~> (ResolvedOrLeftEnd \/ ~errorListener)
    /\ (Sampling /\ TerminationCondition /\ ~errorListener) ~> ResolvedOrLeftEnd
    /\ [][Resolves => TickRuns /\ TerminationCondition]_vars
    /\ [][Settles => promise'.value # << "Cancelled" >>]_vars

\* The exporter's phase, read off its state: Finishing is the inside of the
\* terminating tick and is no state between two steps.
Phase ==
    IF promise.state = "none" THEN "Idle"
    ELSE IF intervalId # Null THEN "Sampling"
    ELSE IF promise.state = "pending" THEN "Seeking"
    ELSE IF promise.state = "resolved" THEN "Resolved"
    ELSE "Aborted"

PhaseOrder ==
    { << "Idle", "Seeking" >>, << "Seeking", "Sampling" >>, << "Seeking", "Aborted" >>,
      << "Sampling", "Resolved" >>, << "Sampling", "Aborted" >> }

\* What C23 spells out: the source is muted and at 16x when the seek to 0 is
\* issued, a tick runs only after the seek-completion signal was received, and
\* the export resolves only from a tick that read the termination condition.
PhaseDetails ==
    /\ (promise.state = "none" /\ promise'.state = "pending")
          => /\ video'.muted /\ video'.playbackRate = EXPORT_PLAYBACK_RATE
             /\ video'.seeking /\ video'.currentTime = 0
             /\ seekedListener' /\ intervalId' = Null
    /\ TickRuns => ~seekedListener
    /\ Resolves => TickRuns /\ TerminationCondition

\* C23: the exporter moves through its phases in the order Idle, Seeking,
\* Sampling, Resolved or Aborted, the last two being final; and the details
\* above hold.
C23_PhaseOrder ==
    [][/\ Phase' # Phase => << Phase, Phase' >> \in PhaseOrder
       /\ PhaseDetails]_vars

\* ------------------------------------------------------------------ C24
\* C24: a navigation of YouTube to another video ('yt-navigate-finish') that
\* finds the extension active reinitializes it: the content script is active
\* for the new video, with its render loop and video listeners, without the
\* user activating it again.
C24_ReinitializesOnNavigation ==
    [][(isActive /\ YtNavigateFinish) => (isActive' /\ animFrameId' # Null /\ cleanupVideoSync')]_vars

\* Once inactive, the content script becomes active by an activation only.
C24_ActiveOnlyByActivate ==
    [][(~isActive /\ isActive') => Activate]_vars

\* ------------------------------------------------------------------ C25
FrameRuns == frameClock' # frameClock

\* C25: while the extension is active, a render frame that finds the video
\* paused or ended runs no detection and leaves the falling notes and the
\* sustained note as they are; every seek completion empties the falling
\* notes and resets the sustained note; after every 'ratechange' the content
\* script's playback rate is the video's.
C25_VideoSync ==
    [][/\ (isActive /\ FrameRuns /\ (video.paused \/ Ended(video)))
            => (~detected' /\ UNCHANGED << fallingNotes, sustainedNote >>)
       /\ (isActive /\ HandleSeeked) => (fallingNotes' = << >> /\ sustainedNote' = << >>)
       /\ (isActive /\ HandleRateChange) => playbackRate' = video'.playbackRate]_vars

\* A frame has found the video paused with notes on the canvas, a seek has
\* completed with notes on the canvas, and a rate change has been taken over.
C25_Witness ==
    /\ isActive
    /\ video.paused
    /\ fallingNotes # << >>
    /\ sustainedNote # << >>
    /\ frameClock > 0
    /\ lastFrameTime = Null
    /\ ~detected
    /\ playbackRate # 1
    /\ ~ratechangeQueued

\* ------------------------------------------------------------------ C26
\* A tick that samples (the export was not cancelled) with candidate midi.
Samples(midi) == Tick(midi) /\ ~cancelled

SegUnchanged == UNCHANGED << notes, currentNote, noteStartTime >>

\* C26 as stated: a sampling tick whose candidate is the sustained pitch, or
\* absent while nothing is sustained, leaves the note sequence, the sustained
\* pitch and its start time as they were.
C26_SameCandidateNoChange ==
    [][\A midi \in Candidates : (Samples(midi) /\ midi = currentNote) => SegUnchanged]_vars

\* C26 amended: such a tick leaves the three unchanged unless it is the tick
\* that terminates the export; the terminating tick changes them only by
\* closing the sustained note at the time it read.
C26_SameCandidateNoChangeUnlessLast ==
    [][\A midi \in Candidates :
          (Samples(midi) /\ midi = currentNote) =>
              IF intervalId' = Null
              THEN /\ currentNote' = Absent
                   /\ noteStartTime' = noteStartTime
                   /\ notes' = IF currentNote = Absent
                               THEN notes
                               ELSE Append(notes, [midi |-> currentNote,
                                                   startTime |-> noteStartTime,
                                                   endTime |-> video.currentTime])
              ELSE SegUnchanged]_vars

\* A note has been sustained over a later tick of a running export.
C26_Witness ==
    /\ promise.state = "pending"
    /\ intervalId # Null
    /\ tickCount >= 2
    /\ currentNote # Absent
    /\ noteStartTime < lastTickTime
    /\ notes = << >>

\* ------------------------------------------------------------------ C27
\* C27: finalization is idempotent.  Once a finalization has run, no note is
\* sustained, and a further finalization leaves the note sequence, the
\* sustained pitch and the start time as they are.
C27_FinalizeIdempotent ==
    [][/\ finalizations' > 0 => currentNote' = Absent
       /\ (finalizations > 0 /\ finalizations' > finalizations) => SegUnchanged]_vars

\* The first finalization closed an open note and two more have run.
C27_Witness ==
    /\ finalizations = 3
    /\ notes # << >>
    /\ Last(notes).endTime = finalTime
    /\ Last(obs).midi # Absent

\* ------------------------------------------------------------------ C28
\* C28: at most one export is in flight on the video at any time, so that no
\* export records the state another export has set (16x) as the original
\* state to restore.
C28_OneExportInFlight ==
    /\ Cardinality(InFlight) <= 1
    /\ \A i \in DOMAIN exports : exports[i].orig.rate # EXPORT_PLAYBACK_RATE

\* All exports have settled and the video is left at the export's rate.
C28_LeftAtExportRate ==
    ~(/\ exports # << >>
      /\ InFlight = { }
      /\ video.playbackRate = EXPORT_PLAYBACK_RATE
      /\ video.muted)

\* ------------------------------------------------------------------ C29
\* A step of the render loop or of the content script's video listeners.
RenderStep == FrameRuns \/ OnSeeked \/ OnRateChange

\* C29: the export's note sequence, sustained pitch and start time are written
\* by the export's own start and ticks only.  Under every interleaving with
\* render frames and with the clearing of the falling notes on a seek, a
\* render step leaves them, and the video the ticks read, as they are, and
\* every change of them is the one the export's tick makes from its own
\* previous values, its candidate and the time it reads.
C29_ExportOwnsSegmentation ==
    [][/\ RenderStep => (SegUnchanged /\ UNCHANGED << video, intervalId, promise >>)
       /\ ~SegUnchanged => (\E midi \in Candidates : Tick(midi))
       /\ (\E midi \in Candidates : Tick(midi)) \/ ExportVideoToMidi
             => UNCHANGED << fallingNotes, sustainedNote >>]_vars

\* The render loop sustains one pitch while the export sustains another, with
\* notes on the canvas and a note already recorded by the export.
C29_Witness ==
    /\ promise.state = "pending"
    /\ tickCount >= 2
    /\ notes # << >>
    /\ currentNote # Absent
    /\ sustainedNote # << >>
    /\ sustainedNote[1].midi # currentNote
    /\ frameClock > 0
    /\ detected

\* ------------------------------------------------------------------ C30
\* C30: over every sequence of initAudioCapture, teardownAudioCapture and
\* destroyAudioCapture, createMediaElementSource is called at most once for
\* each video element.
C30_OneSourcePerVideo ==
    \A v \in 1 .. NumVideos : created[v] <= 1

\* The part of C30 about one video: as long as no other video is captured and
\* the capture is not destroyed, a repeated initAudioCapture, also after a
\* teardown, creates no second source node.
C30_ReusedUntilDestroyed ==
    [][\A v \in 1 .. NumVideos :
          (capture.capturedVideo = v /\ capture.sourceNode = v /\ capture'.capturedVideo = v)
              => created'[v] = created[v]]_vars

\* ------------------------------------------------------------------ C31
\* What a decoder reads from the file: the division of the header chunk and
\* the microseconds per beat of the tempo meta event, the third sub-event.
FileDivision(bytes) == bytes[13] * 256 + bytes[14]

FileTempo(bytes) ==
    LET data == SubEvents(bytes)[3].data
    IN  data[3] * 65536 + data[4] * 256 + data[5]

\* Ticks per second for a decoder that applies header and tempo.
FileTicksPerSecond(bytes) == (FileDivision(bytes) * 1000000) \div FileTempo(bytes)

\* The decoded tick is within half a tick of the input time: twice the
\* distance between tick / rate and time, in ticks, is at most one.  The whole
\* seconds of the time are taken off both sides first.
WithinHalfTick(tick, time, rate) ==
    LET whole == time \div UnitsPerSecond
        part == time % UnitsPerSecond
        off == 2 * (tick - whole * rate) * UnitsPerSecond - 2 * part * rate
    IN  off <= UnitsPerSecond /\ -off <= UnitsPerSecond

RateConsistent(bytes) ==
    /\ SubEvents(bytes)[3].status = 255
    /\ SubSeq(SubEvents(bytes)[3].data, 1, 2) = << 81, 3 >>
    /\ FileDivision(bytes) = TICKS_PER_QUARTER
    /\ FileTempo(bytes) = 500000
    /\ FileDivision(bytes) * 1000000 = TICKS_PER_SECOND * FileTempo(bytes)
    /\ TICKS_PER_SECOND = 960

\* C31 as stated: the rate used for the conversion, 960 ticks per second, is
\* the header's division times 1,000,000 over the tempo event's microseconds
\* per beat, and every sub-event is decoded within half a tick of its input
\* time.
C31_DecodedWithinHalfTick ==
    serOut # << >>
        => LET body == NoteBody(serOut)
               evs == midiEvents(notes)
           IN  /\ RateConsistent(serOut)
               /\ \A i \in DOMAIN body :
                     WithinHalfTick(DecodedTick(body, i), evs[i].time, FileTicksPerSecond(serOut))

\* C31 amended: the rates agree, and a sub-event whose time is not negative
\* and which has no gap wider than 0x0FFFFFFF ticks before it is decoded
\* within half a tick of its input time.
C31_DecodedWithinHalfTickInRange ==
    serOut # << >>
        => LET body == NoteBody(serOut)
               evs == midiEvents(notes)
               Gap(i) == TickOf(evs, i) - TickOf(evs, i - 1)
           IN  /\ RateConsistent(serOut)
               /\ \A i \in DOMAIN body :
                     (evs[i].time >= 0 /\ \A k \in 1 .. i : Gap(k) <= MAX_DELTA)
                        => WithinHalfTick(DecodedTick(body, i), evs[i].time,
                                          FileTicksPerSecond(serOut))

\* A file with a sub-event at a time that is no whole number of ticks, decoded
\* within half a tick, and a sub-event before the origin, decoded at 0.
C31_Witness ==
    /\ serOut # << >>
    /\ \E i \in PositiveNotes(notes) : notes[i].startTime = 13
    /\ \E i \in PositiveNotes(notes) : notes[i].startTime = -13
    /\ DecodedTick(NoteBody(serOut), 1) = 0

\* ------------------------------------------------------------------ C32
\* A run of one of the exporter's callbacks: a listener or the timer.
ExporterStep ==
    \/ SourceError
    \/ \E playAllowed \in BOOLEAN : Seeked(playAllowed)
    \/ \E midi \in Candidates : Tick(midi)

\* The callback leaves the source's rate, mute flag, pause state and position
\* alone, sets no timer and reports no progress.
Quiescent ==
    /\ video'.playbackRate = video.playbackRate
    /\ video'.muted = video.muted
    /\ video'.paused = video.paused
    /\ video'.currentTime = video.currentTime
    /\ intervalId' = Null
    /\ progressCalls' = progressCalls

\* C32: once the promise has settled, whatever the source emits afterwards,
\* the exporter changes nothing of the source any more, starts neither
\* playback nor a timer and does not call the progress sink.
C32_QuiescentAfterSettle ==
    [][(promise.state \in { "resolved", "rejected" } /\ ExporterStep) => Quiescent]_vars

\* An error event after a successful export leaves the source as it is.
C32_ErrorAfterResolveSilent ==
    [][(promise.state = "resolved" /\ SourceError) => video' = video]_vars

\* ------------------------------------------------------------------ C33
\* C33: the status 'active' is sent only by a script whose isActive flag is
\* set; isActive changes only together with a status ('active' from
\* activate, 'inactive' from deactivate), so while 'active' is the latest
\* status sent the script is active, also when a deactivation came during
\* an export.
C33_ActiveStatusMeansActive == lastStatus = "active" => isActive

\* ------------------------------------------------------------------ C34
\* C34: however activate and deactivate messages interleave, at most one
\* render callback is scheduled and every attached set of listeners is the
\* one whose cleanup function the script retains.
C34_OneLoopListenersRetained ==
    /\ loops <= 1
    /\ attached <= (IF cleanupVideoSync THEN 1 ELSE 0)

\* A deactivate that found the script active leaves neither a render
\* callback nor a listener.
C34_DeactivateLeavesNothing == [][Deactivate => (loops' = 0 /\ attached' = 0)]_vars

\* ------------------------------------------------------------------ C35
ActiveNotes == { i \in DOMAIN fallingNotes : fallingNotes[i].active }

\* C35: at most one falling note is active; the sustained note is null
\* or that one active note, an element of the list of falling notes.
C35_OneActiveSustainedInList ==
    /\ Cardinality(ActiveNotes) <= 1
    /\ \A i \in ActiveNotes :
          sustainedNote # << >> /\ sustainedNote[1].id = fallingNotes[i].id
    /\ sustainedNote # << >> =>
          \E i \in ActiveNotes : fallingNotes[i].id = sustainedNote[1].id

\* A note whose active flag has been cleared never becomes active again.
C35_NeverReactivated ==
    [][\A i \in DOMAIN fallingNotes : \A j \in DOMAIN fallingNotes' :
          (fallingNotes'[j].id = fallingNotes[i].id /\ ~fallingNotes[i].active)
             => ~fallingNotes'[j].active]_vars

\* ------------------------------------------------------------------ C36
NoteSubEvents(bytes) == SelectSeq(SubEvents(bytes), IsNoteSubEvent)

IsNoteStart(ev) == ev.status \in 144 .. 159 /\ ev.data[2] > 0

\* Starts and ends alternate, beginning with a start and ending with an end,
\* and each end has the pitch of the start before it: the number of starts
\* minus the number of ends is 1 after a start and 0 after an end.
Monophonic(bytes) ==
    LET evs == NoteSubEvents(bytes)
    IN  /\ Len(evs) % 2 = 0
        /\ \A i \in DOMAIN evs :
              IF i % 2 = 1
              THEN IsNoteStart(evs[i])
              ELSE ~IsNoteStart(evs[i]) /\ evs[i].data[1] = evs[i - 1].data[1]

\* The file finish() builds if the export ends at the source's present
\* position: the notes accumulated, the open one closed.
FileNow == buildMidiFile(CloseOpenNote(Seg, video.currentTime).notes)

\* C36: the file built from the notes an export has accumulated is
\* monophonic.
C36_Monophonic == promise.state = "pending" => Monophonic(FileNow)

\* The same for an export during which the source's position never went back.
C36_MonophonicForward ==
    (promise.state = "pending" /\ ~timeWentBack /\ video.currentTime >= lastTickTime)
       => Monophonic(FileNow)

\* The same for the files of the segmentation fed with increasing times.
C36_MonophonicSegments == Monophonic(buildMidiFile(notes))

\* ------------------------------------------------------------------ C37
\* The source node's output reaches the destination: source -> analyser ->
\* destination.
Routed(cap) == cap.sourceConnected /\ cap.analyserConnected

\* C37: as long as the module holds a source node of the captured video,
\* the node is connected through to the destination, after initAudioCapture
\* and after teardownAudioCapture alike.
C37_SourceReachesDestination == capture.sourceNode # Null => Routed(capture)

\* The same after initAudioCapture alone.
C37_RoutedByInit ==
    [][\A v \in 1 .. NumVideos :
          (InitAudioCapture(v) /\ capture'.sourceNode # Null) => Routed(capture')]_vars

\* ------------------------------------------------------------------ C38
\* peakBin of the frame given to detectNote, -1 if no bin is above the gate.
SelectedPeak ==
    PeakScan(arg.freqData, BinStart(Len(arg.freqData), arg.sampleRate),
             BinEnd(Len(arg.freqData), arg.sampleRate),
             [amplitude |-> AMPLITUDE_THRESHOLD_DB, bin |-> -1]).bin

HasBothNeighbours == SelectedPeak > 0 /\ SelectedPeak < Len(arg.freqData) - 1

\* peakFreq lies within half a bin of the peak bin's own frequency, which is
\* |offset| <= 0.5; an offset of NaN is not within any distance.
WithinHalfBin ==
    LET binHz == BinHz(Len(arg.freqData), arg.sampleRate)
        peakFreq == PeakFreq(arg.freqData, SelectedPeak, binHz)
    IN  /\ peakFreq # NaN
        /\ 2 * (peakFreq - SelectedPeak * binHz) <= binHz
        /\ 2 * (SelectedPeak * binHz - peakFreq) <= binHz

DetectNoteDone == ret # << >> /\ ret[1].fn = "detectNote"

\* C38: for every frame whose selected peak bin has both neighbours, the
\* parabolic refinement moves the estimate by at most half a bin.
C38_OffsetWithinHalfBin == (DetectNoteDone /\ HasBothNeighbours) => WithinHalfBin

\* The same for a peak bin that is finite on both sides and not below either
\* neighbour.
C38_OffsetWithinHalfBinAtLocalPeak ==
    (/\ DetectNoteDone
     /\ HasBothNeighbours
     /\ Bin(arg.freqData, SelectedPeak - 1) # NegInf
     /\ Bin(arg.freqData, SelectedPeak + 1) # NegInf
     /\ Bin(arg.freqData, SelectedPeak - 1) <= Bin(arg.freqData, SelectedPeak)
     /\ Bin(arg.freqData, SelectedPeak + 1) <= Bin(arg.freqData, SelectedPeak))
       => WithinHalfBin

\* The same for a peak bin with finite neighbours, whatever their magnitude.
C38_OffsetWithinHalfBinFinite ==
    (/\ DetectNoteDone
     /\ HasBothNeighbours
     /\ Bin(arg.freqData, SelectedPeak - 1) # NegInf
     /\ Bin(arg.freqData, SelectedPeak + 1) # NegInf)
       => WithinHalfBin

====
